---- MODULE Spec2Model ----
(***************************************************************************)
(* Model of the TypeScript task/user manager: the Task and User entities,  *)
(* the two validators of each, TaskService and UserService.                *)
(*                                                                         *)
(* Representation of JavaScript values:                                    *)
(*   - strings whose length, trimming or pattern matter (title,            *)
(*     description, name, email) are sequences of one-character strings;   *)
(*   - enum members and opaque strings (priority, status, role, assignee,  *)
(*     tag) are TLA+ strings holding the JavaScript string itself;         *)
(*   - a Date is its millisecond count (a natural number), NaNDate is the  *)
(*     "Invalid Date";                                                     *)
(*   - undefined is UndefStr / Undef / UndefDate according to the type of  *)
(*     the field it stands in;                                             *)
(*   - the identifier `task_${n}` is <<"task_", n>>, `user_${n}` is        *)
(*     <<"user_", n>>.                                                     *)
(***************************************************************************)
EXTENDS Integers, Sequences, FiniteSets, TLC

VARIABLES tasks, taskNextId, users, userNextId, now, last

vars == <<tasks, taskNextId, users, userNextId, now, last>>

(***************************************************************************)
(* Bounds of the model.                                                    *)
(***************************************************************************)
MaxTasks == 2
MaxUsers == 3
MaxQueryTasks == 3
MaxPage == 3
MaxLimit == 3

(***************************************************************************)
(* JavaScript values.                                                      *)
(***************************************************************************)
Undef == "\\undefined"
UndefStr == <<"\\undefined">>
UndefDate == 0 - 2
NaNDate == 0 - 1

Rep(c, n) == [i \in 1..n |-> c]

IsWhitespace(c) == c = " "

\* String.prototype.trim: the string between its first and its last
\* character that is not whitespace
Trim(s) ==
  LET kept == {i \in 1..Len(s) : ~IsWhitespace(s[i])}
  IN  IF kept = {} THEN <<>>
      ELSE SubSeq(s, CHOOSE i \in kept : \A j \in kept : i <= j,
                     CHOOSE i \in kept : \A j \in kept : j <= i)

\* truthiness of a string-or-undefined value: undefined and "" are falsy
TruthyStr(s) == s # UndefStr /\ s # <<>>

\* truthiness of an enum/opaque string-or-undefined value
Truthy(s) == s # Undef /\ s # ""

\* a < b on Date objects (compares the time values; NaN compares false)
DateLt(a, b) == a # NaNDate /\ b # NaNDate /\ a < b

(***************************************************************************)
(* models/types.ts                                                         *)
(***************************************************************************)
Priority == {"low", "medium", "high", "urgent"}
TaskStatus == {"todo", "in-progress", "done", "cancelled"}
UserRole == {"admin", "manager", "user", "guest"}

(***************************************************************************)
(* utils/validators.ts                                                     *)
(***************************************************************************)
isDate(v) == v # UndefDate /\ v # NaNDate
isPriority(v) == v \in Priority
isTaskStatus(v) == v \in TaskStatus
isUserRole(v) == v \in UserRole

\* /^[^\s@]+@[^\s@]+\.[^\s@]+$/ : local part, "@", then a rest that holds a
\* "." with at least one character on each side; no whitespace and no
\* further "@" anywhere.
isValidEmail(email) ==
  \E i \in 2..(Len(email) - 3) :
    /\ email[i] = "@"
    /\ \A k \in 1..Len(email) : k # i => (~IsWhitespace(email[k]) /\ email[k] # "@")
    /\ \E j \in (i + 2)..(Len(email) - 1) : email[j] = "."

\* the error message, or Undef for null
validateRequired(value, fieldName) ==
  IF value = UndefStr THEN fieldName \o " is required"
  ELSE IF Len(Trim(value)) = 0 THEN fieldName \o " cannot be empty"
  ELSE Undef

validateStringLength(value, fieldName, minLength, maxLength, minText, maxText) ==
  IF Len(value) < minLength
    THEN fieldName \o " must be at least " \o minText \o " characters long"
  ELSE IF Len(value) > maxLength
    THEN fieldName \o " must be no more than " \o maxText \o " characters long"
  ELSE Undef

\* errors.push(e) when e is an error message
Push(errors, e) == IF e # Undef THEN Append(errors, e) ELSE errors

PushIf(errors, cond, e) == IF cond THEN Append(errors, e) ELSE errors

\* the validator that stops at the first error
validateTaskData_FirstErrorOnly(taskData) ==
  LET e0 == <<>>
      e1 == IF taskData.title # UndefStr
              THEN LET titleError == validateRequired(taskData.title, "Title")
                   IN  IF titleError # Undef THEN Append(e0, titleError)
                       ELSE Push(e0, validateStringLength(taskData.title, "Title", 1, 200, "1", "200"))
              ELSE e0
      e2 == IF taskData.description # UndefStr
              THEN Push(e1, validateStringLength(taskData.description, "Description", 0, 1000, "0", "1000"))
              ELSE e1
      e3 == PushIf(e2, taskData.priority # Undef /\ ~isPriority(taskData.priority),
                   "Invalid priority value")
      e4 == PushIf(e3, taskData.status # Undef /\ ~isTaskStatus(taskData.status),
                   "Invalid status value")
      e5 == PushIf(e4, taskData.dueDate # UndefDate /\ ~isDate(taskData.dueDate),
                   "Due date must be a valid date")
      e6 == IF taskData.tagsKind # "absent"
              THEN IF taskData.tagsKind = "notarray" THEN Append(e5, "Tags must be an array")
                   ELSE PushIf(e5, taskData.tagsKind = "mixed", "All tags must be strings")
              ELSE e5
  IN  [isValid |-> Len(e6) = 0, errors |-> IF Len(e6) > 1 THEN <<e6[1]>> ELSE e6]

validateTaskData(taskData) ==
  LET e0 == <<>>
      e1 == IF taskData.title # UndefStr
              THEN LET titleError == validateRequired(taskData.title, "Title")
                   IN  IF titleError # Undef THEN Append(e0, titleError)
                       ELSE Push(e0, validateStringLength(taskData.title, "Title", 1, 200, "1", "200"))
              ELSE e0
      e2 == IF taskData.description # UndefStr
              THEN Push(e1, validateStringLength(taskData.description, "Description", 0, 1000, "0", "1000"))
              ELSE e1
      e3 == PushIf(e2, taskData.priority # Undef /\ ~isPriority(taskData.priority),
                   "Invalid priority value")
      e4 == PushIf(e3, taskData.status # Undef /\ ~isTaskStatus(taskData.status),
                   "Invalid status value")
      e5 == PushIf(e4, taskData.dueDate # UndefDate /\ ~isDate(taskData.dueDate),
                   "Due date must be a valid date")
      e6 == IF taskData.tagsKind # "absent"
              THEN IF taskData.tagsKind = "notarray" THEN Append(e5, "Tags must be an array")
                   ELSE PushIf(e5, taskData.tagsKind = "mixed", "All tags must be strings")
              ELSE e5
  IN  [isValid |-> Len(e6) = 0, errors |-> e6]

validateUserData(userData) ==
  LET e0 == <<>>
      e1 == IF userData.name # UndefStr
              THEN LET nameError == validateRequired(userData.name, "Name")
                   IN  IF nameError # Undef THEN Append(e0, nameError)
                       ELSE Push(e0, validateStringLength(userData.name, "Name", 1, 100, "1", "100"))
              ELSE e0
      e2 == IF userData.email # UndefStr
              THEN LET emailError == validateRequired(userData.email, "Email")
                   IN  IF emailError # Undef THEN Append(e1, emailError)
                       ELSE PushIf(e1, ~isValidEmail(userData.email), "Invalid email format")
              ELSE e1
      e3 == PushIf(e2, userData.role # Undef /\ ~isUserRole(userData.role),
                   "Invalid user role")
  IN  [isValid |-> Len(e3) = 0, errors |-> e3]

(***************************************************************************)
(* models/Task.ts : Task.validate                                          *)
(***************************************************************************)
TaskValidate(t) ==
  LET e0 == <<>>
      e1 == PushIf(e0, ~TruthyStr(t.title) \/ Len(Trim(t.title)) = 0, "Title is required")
      e2 == PushIf(e1, TruthyStr(t.title) /\ Len(t.title) > 200,
                   "Title must be less than 200 characters")
      e3 == PushIf(e2, TruthyStr(t.description) /\ Len(t.description) > 1000,
                   "Description must be less than 1000 characters")
      e4 == PushIf(e3, t.dueDate # UndefDate /\ DateLt(t.dueDate, t.createdAt),
                   "Due date cannot be before creation date")
  IN  [isValid |-> Len(e4) = 0, errors |-> e4]

(***************************************************************************)
(* models/User.ts : User.validate                                          *)
(***************************************************************************)
UserIsValidEmail(email) == isValidEmail(email)

UserValidate(u) ==
  LET e0 == <<>>
      e1 == PushIf(e0, ~TruthyStr(u.name) \/ Len(Trim(u.name)) = 0, "Name is required")
      e2 == PushIf(e1, TruthyStr(u.name) /\ Len(u.name) > 100,
                   "Name must be less than 100 characters")
      e3 == PushIf(e2, ~TruthyStr(u.email) \/ ~UserIsValidEmail(u.email),
                   "Valid email is required")
  IN  [isValid |-> Len(e3) = 0, errors |-> e3]

(***************************************************************************)
(* Optional values that are neither strings nor dates (booleans, objects,  *)
(* arrays): undefined is None, a value v is Some(v).                       *)
(***************************************************************************)
None == <<>>
Some(v) == <<v>>
IsSome(o) == o # <<>>
Val(o) == o[1]

\* the analogue of UndefStr for a string[] field
UndefTags == <<"\\undefined">>

\* Array.prototype.includes on a sequence
Includes(arr, v) == \E i \in 1..Len(arr) : arr[i] = v

\* Array.prototype.slice(start, end)
JsSlice(arr, start, end) ==
  LET len == Len(arr)
      k == IF start < 0 THEN (IF len + start > 0 THEN len + start ELSE 0)
           ELSE (IF start < len THEN start ELSE len)
      f == IF end < 0 THEN (IF len + end > 0 THEN len + end ELSE 0)
           ELSE (IF end < len THEN end ELSE len)
  IN  IF f > k THEN SubSeq(arr, k + 1, f) ELSE <<>>

\* Math.ceil(a / b) for a >= 0, b > 0
CeilDiv(a, b) == (a + b - 1) \div b

\* the strings of the model in the order of JavaScript's < on strings
StrOrder ==
  <<"", "admin", "cancelled", "done", "guest", "high", "in-progress", "invalid",
    "low", "manager", "medium", "todo", "u1", "u2", "urgent", "user", "x", "y">>

StrRank(s) == CHOOSE i \in 1..Len(StrOrder) : StrOrder[i] = s

StrLt(a, b) == StrRank(a) < StrRank(b)

(***************************************************************************)
(* models/Task.ts                                                          *)
(***************************************************************************)
TaskId(n) == <<"task_", n>>

\* new Task(input) at time t
NewTask(input, id, t) ==
  [id |-> id,
   title |-> input.title,
   description |-> input.description,
   priority |-> IF Truthy(input.priority) THEN input.priority ELSE "medium",
   status |-> "todo",
   assignedTo |-> input.assignedTo,
   createdAt |-> t,
   updatedAt |-> t,
   dueDate |-> input.dueDate,
   tags |-> IF input.tags # UndefTags THEN input.tags ELSE <<>>,
   completed |-> FALSE]

markComplete(task, t) ==
  [task EXCEPT !.completed = TRUE, !.status = "done", !.updatedAt = t]

markIncomplete(task, t) ==
  [task EXCEPT !.completed = FALSE, !.status = "todo", !.updatedAt = t]

\* Task.update(updates)
TaskUpdate(task, updates, t) ==
  [task EXCEPT
     !.title = IF updates.title # UndefStr THEN updates.title ELSE @,
     !.description = IF updates.description # UndefStr THEN updates.description ELSE @,
     !.priority = IF updates.priority # Undef THEN updates.priority ELSE @,
     !.assignedTo = IF updates.assignedTo # Undef THEN updates.assignedTo ELSE @,
     !.dueDate = IF updates.dueDate # UndefDate THEN updates.dueDate ELSE @,
     !.tags = IF updates.tags # UndefTags THEN updates.tags ELSE @,
     !.updatedAt = t]

\* Array.prototype.indexOf, 0 for -1
IndexOf(arr, v) ==
  IF \E i \in 1..Len(arr) : arr[i] = v
    THEN CHOOSE i \in 1..Len(arr) : arr[i] = v /\ \A j \in 1..(i - 1) : arr[j] # v
    ELSE 0

addTag(task, tag, t) ==
  IF ~Includes(task.tags, tag)
    THEN [task EXCEPT !.tags = Append(@, tag), !.updatedAt = t]
    ELSE task

removeTag(task, tag, t) ==
  LET index == IndexOf(task.tags, tag)
  IN  IF index > 0
        THEN [task EXCEPT !.tags = SubSeq(@, 1, index - 1) \o SubSeq(@, index + 1, Len(@)),
                          !.updatedAt = t]
        ELSE task

(***************************************************************************)
(* services/TaskService.ts                                                 *)
(***************************************************************************)
Ok(data) == [success |-> TRUE, data |-> data]
Fail(kind, detail) == [success |-> FALSE, error |-> [kind |-> kind, detail |-> detail]]

\* `Task with ID ${id} not found`
TaskNotFound(id) == Fail("Task with ID ... not found", id)
\* `Validation failed: ${errors.join(', ')}`
ValidationFailed(errors) == Fail("Validation failed: ...", errors)

\* tasks.findIndex(t => t.id === id), 0 for -1
FindTaskIndex(ts, id) ==
  IF \E i \in 1..Len(ts) : ts[i].id = id
    THEN CHOOSE i \in 1..Len(ts) : ts[i].id = id /\ \A j \in 1..(i - 1) : ts[j].id # id
    ELSE 0

RemoveAt(arr, i) == SubSeq(arr, 1, i - 1) \o SubSeq(arr, i + 1, Len(arr))

\* a filter field of type T | T[]: the single value, or the array
Single(v) == [isArray |-> FALSE, one |-> v, many |-> <<>>]
Many(arr) == [isArray |-> TRUE, one |-> Undef, many |-> arr]

\* Array.isArray(x) ? x : [x]
AsArray(x) == IF x.isArray THEN x.many ELSE <<x.one>>

\* truthiness of a T | T[] | undefined field: an array is truthy
TruthyField(o) == IsSome(o) /\ (Val(o).isArray \/ Truthy(Val(o).one))

\* the callback with a date range that excludes its end
TaskMatches_ExclusiveEnd(task, filters) ==
  /\ TruthyField(filters.status) => Includes(AsArray(Val(filters.status)), task.status)
  /\ TruthyField(filters.priority) => Includes(AsArray(Val(filters.priority)), task.priority)
  /\ ~(Truthy(filters.assignedTo) /\ task.assignedTo # filters.assignedTo)
  /\ ~(IsSome(filters.completed) /\ task.completed # Val(filters.completed))
  /\ IsSome(filters.dateRange)
       => ~(DateLt(task.createdAt, Val(filters.dateRange).start)
            \/ ~DateLt(task.createdAt, Val(filters.dateRange).end))
  /\ (filters.tags # UndefTags /\ Len(filters.tags) > 0)
       => \E i \in 1..Len(filters.tags) : Includes(task.tags, filters.tags[i])

\* the filter callback of applyFilters
TaskMatches(task, filters) ==
  /\ TruthyField(filters.status)
       => LET statusArray == AsArray(Val(filters.status))
          IN  Includes(statusArray, task.status)
  /\ TruthyField(filters.priority)
       => LET priorityArray == AsArray(Val(filters.priority))
          IN  Includes(priorityArray, task.priority)
  /\ ~(Truthy(filters.assignedTo) /\ task.assignedTo # filters.assignedTo)
  /\ ~(IsSome(filters.completed) /\ task.completed # Val(filters.completed))
  /\ IsSome(filters.dateRange)
       => ~(DateLt(task.createdAt, Val(filters.dateRange).start)
            \/ DateLt(Val(filters.dateRange).end, task.createdAt))
  /\ (filters.tags # UndefTags /\ Len(filters.tags) > 0)
       => \E i \in 1..Len(filters.tags) : Includes(task.tags, filters.tags[i])

\* a filter that removes in place while iterating forward: the element after
\* a removed one is never tested
RECURSIVE applyFilters_SpliceSkip(_, _)
applyFilters_SpliceSkip(ts, filters) ==
  IF ts = <<>> THEN <<>>
  ELSE IF TaskMatches(Head(ts), filters)
    THEN <<Head(ts)>> \o applyFilters_SpliceSkip(Tail(ts), filters)
  ELSE IF Len(ts) >= 2
    THEN <<ts[2]>> \o applyFilters_SpliceSkip(Tail(Tail(ts)), filters)
  ELSE <<>>

\* a filter that collects the accepted elements with unshift: last one first
RECURSIVE applyFilters_Unshift(_, _)
applyFilters_Unshift(ts, filters) ==
  IF ts = <<>> THEN <<>>
  ELSE applyFilters_Unshift(Tail(ts), filters)
       \o (IF TaskMatches(Head(ts), filters) THEN <<Head(ts)>> ELSE <<>>)

\* tasks.filter(callback): the elements the callback accepts, in order
RECURSIVE applyFilters(_, _)
applyFilters(ts, filters) ==
  IF ts = <<>> THEN <<>>
  ELSE (IF TaskMatches(Head(ts), filters) THEN <<Head(ts)>> ELSE <<>>)
       \o applyFilters(Tail(ts), filters)

\* a[sortBy] === undefined
KeyUndefined(task, sortBy) ==
  CASE sortBy \in {"title", "description"} -> task[sortBy] = UndefStr
    [] sortBy \in {"createdAt", "updatedAt", "dueDate"} -> task[sortBy] = UndefDate
    [] sortBy \in {"priority", "status", "assignedTo"} -> task[sortBy] = Undef
    [] OTHER -> FALSE

\* aValue < bValue for two defined values of the key
KeyLt(a, b, sortBy) ==
  CASE sortBy \in {"createdAt", "updatedAt", "dueDate"} -> DateLt(a[sortBy], b[sortBy])
    [] sortBy \in {"priority", "status", "assignedTo"} -> StrLt(a[sortBy], b[sortBy])
    [] sortBy = "completed" -> (~a.completed /\ b.completed)
    [] OTHER -> FALSE

\* the comparator without the undefined branches: an undefined value compares
\* equal to everything
SortCompare_NoUndefined(a, b, sortBy, sortOrder) ==
  IF KeyUndefined(a, sortBy) \/ KeyUndefined(b, sortBy) THEN 0
  ELSE LET comparison == IF KeyLt(a, b, sortBy) THEN 0 - 1
                         ELSE IF KeyLt(b, a, sortBy) THEN 1 ELSE 0
       IN  IF sortOrder = "desc" THEN 0 - comparison ELSE comparison

\* the comparator that never answers 0 for two defined values
SortCompare_NoTie(a, b, sortBy, sortOrder) ==
  IF KeyUndefined(a, sortBy) /\ KeyUndefined(b, sortBy) THEN 0
  ELSE IF KeyUndefined(a, sortBy) THEN (IF sortOrder = "asc" THEN 1 ELSE 0 - 1)
  ELSE IF KeyUndefined(b, sortBy) THEN (IF sortOrder = "asc" THEN 0 - 1 ELSE 1)
  ELSE LET comparison == IF KeyLt(a, b, sortBy) THEN 0 - 1 ELSE 1
       IN  IF sortOrder = "desc" THEN 0 - comparison ELSE comparison

\* the comparator of applySorting
SortCompare(a, b, sortBy, sortOrder) ==
  IF KeyUndefined(a, sortBy) /\ KeyUndefined(b, sortBy) THEN 0
  ELSE IF KeyUndefined(a, sortBy) THEN (IF sortOrder = "asc" THEN 1 ELSE 0 - 1)
  ELSE IF KeyUndefined(b, sortBy) THEN (IF sortOrder = "asc" THEN 0 - 1 ELSE 1)
  ELSE LET comparison == IF KeyLt(a, b, sortBy) THEN 0 - 1
                         ELSE IF KeyLt(b, a, sortBy) THEN 1 ELSE 0
       IN  IF sortOrder = "desc" THEN 0 - comparison ELSE comparison

\* Array.prototype.sort(comparator): stable; x goes after every element that
\* does not compare greater than it
SortInsert(sorted, x, sortBy, sortOrder) ==
  LET after == {i \in 1..Len(sorted) : SortCompare(sorted[i], x, sortBy, sortOrder) > 0}
      pos == IF after = {} THEN Len(sorted) + 1
             ELSE CHOOSE i \in after : \A j \in after : i <= j
  IN  SubSeq(sorted, 1, pos - 1) \o <<x>> \o SubSeq(sorted, pos, Len(sorted))

RECURSIVE SortFrom(_, _, _, _)
SortFrom(sorted, rest, sortBy, sortOrder) ==
  IF rest = <<>> THEN sorted
  ELSE SortFrom(SortInsert(sorted, Head(rest), sortBy, sortOrder), Tail(rest), sortBy, sortOrder)

applySorting(ts, sortBy, sortOrder) == SortFrom(<<>>, ts, sortBy, sortOrder)

\* getAll with pages counted from 0
getAllData_PageFromZero(ts, filters, pagination) ==
  LET copied == ts
      filtered == IF IsSome(filters) THEN applyFilters(copied, Val(filters)) ELSE copied
      sorted == IF IsSome(pagination) /\ Truthy(Val(pagination).sortBy)
                  THEN applySorting(filtered, Val(pagination).sortBy,
                                    IF Truthy(Val(pagination).sortOrder)
                                      THEN Val(pagination).sortOrder ELSE "asc")
                  ELSE filtered
      total == Len(sorted)
  IN  IF IsSome(pagination)
        THEN LET startIndex == Val(pagination).page * Val(pagination).limit
                 endIndex == startIndex + Val(pagination).limit
             IN  [tasks |-> JsSlice(sorted, startIndex, endIndex),
                  total |-> total,
                  page |-> Val(pagination).page,
                  totalPages |-> CeilDiv(total, Val(pagination).limit)]
        ELSE [tasks |-> sorted, total |-> total]

\* getAll that counts the tasks after cutting the page
getAllData_TotalOfPage(ts, filters, pagination) ==
  LET copied == ts
      filtered == IF IsSome(filters) THEN applyFilters(copied, Val(filters)) ELSE copied
      sorted == IF IsSome(pagination) /\ Truthy(Val(pagination).sortBy)
                  THEN applySorting(filtered, Val(pagination).sortBy,
                                    IF Truthy(Val(pagination).sortOrder)
                                      THEN Val(pagination).sortOrder ELSE "asc")
                  ELSE filtered
      total == Len(sorted)
  IN  IF IsSome(pagination)
        THEN LET startIndex == (Val(pagination).page - 1) * Val(pagination).limit
                 endIndex == startIndex + Val(pagination).limit
             IN  [tasks |-> JsSlice(sorted, startIndex, endIndex),
                  total |-> Len(JsSlice(sorted, startIndex, endIndex)),
                  page |-> Val(pagination).page,
                  totalPages |-> CeilDiv(total, Val(pagination).limit)]
        ELSE [tasks |-> sorted, total |-> total]

\* the data of getAll's response
getAllData(ts, filters, pagination) ==
  LET copied == ts
      filtered == IF IsSome(filters) THEN applyFilters(copied, Val(filters)) ELSE copied
      sorted == IF IsSome(pagination) /\ Truthy(Val(pagination).sortBy)
                  THEN applySorting(filtered, Val(pagination).sortBy,
                                    IF Truthy(Val(pagination).sortOrder)
                                      THEN Val(pagination).sortOrder ELSE "asc")
                  ELSE filtered
      total == Len(sorted)
  IN  IF IsSome(pagination)
        THEN LET startIndex == (Val(pagination).page - 1) * Val(pagination).limit
                 endIndex == startIndex + Val(pagination).limit
             IN  [tasks |-> JsSlice(sorted, startIndex, endIndex),
                  total |-> total,
                  page |-> Val(pagination).page,
                  totalPages |-> CeilDiv(total, Val(pagination).limit)]
        ELSE [tasks |-> sorted, total |-> total]

(***************************************************************************)
(* TaskService operations.  `last` records the call and its response.      *)
(***************************************************************************)
MaxTaskId == 3

UserFrame == UNCHANGED <<users, userNextId>>

\* create with the id made from the number of stored tasks
TS_create_IdFromLength(taskData) ==
  /\ taskNextId <= MaxTaskId
  /\ Len(tasks) < MaxTasks
  /\ LET task == NewTask(taskData, TaskId(Len(tasks) + 1), now)
         validation == TaskValidate(task)
     IN  /\ taskNextId' = taskNextId + 1
         /\ IF ~validation.isValid
              THEN /\ tasks' = tasks
                   /\ last' = [op |-> "TaskService.create", arg |-> taskData,
                               resp |-> ValidationFailed(validation.errors)]
              ELSE /\ tasks' = Append(tasks, task)
                   /\ last' = [op |-> "TaskService.create", arg |-> taskData,
                               resp |-> Ok(task)]
  /\ UNCHANGED now
  /\ UserFrame

TS_create(taskData) ==
  /\ taskNextId <= MaxTaskId
  /\ Len(tasks) < MaxTasks
  /\ LET task == NewTask(taskData, TaskId(taskNextId), now)
         validation == TaskValidate(task)
     IN  /\ taskNextId' = taskNextId + 1
         /\ IF ~validation.isValid
              THEN /\ tasks' = tasks
                   /\ last' = [op |-> "TaskService.create", arg |-> taskData,
                               resp |-> ValidationFailed(validation.errors)]
              ELSE /\ tasks' = Append(tasks, task)
                   /\ last' = [op |-> "TaskService.create", arg |-> taskData,
                               resp |-> Ok(task)]
  /\ UNCHANGED now
  /\ UserFrame

TS_getById(id) ==
  /\ LET i == FindTaskIndex(tasks, id)
     IN  last' = [op |-> "TaskService.getById", id |-> id,
                  resp |-> IF i = 0 THEN TaskNotFound(id) ELSE Ok(tasks[i])]
  /\ UNCHANGED <<tasks, taskNextId, now>>
  /\ UserFrame

\* getAll without the copy [...this.tasks]: with no filter the sort reorders
\* the stored array
TS_getAll_SortInPlace(filters, pagination) ==
  /\ last' = [op |-> "TaskService.getAll", filters |-> filters, pagination |-> pagination,
              resp |-> Ok(getAllData(tasks, filters, pagination))]
  /\ tasks' = IF filters = None /\ IsSome(pagination) /\ Truthy(Val(pagination).sortBy)
                THEN applySorting(tasks, Val(pagination).sortBy,
                                  IF Truthy(Val(pagination).sortOrder)
                                    THEN Val(pagination).sortOrder ELSE "asc")
                ELSE tasks
  /\ UNCHANGED <<taskNextId, now>>
  /\ UserFrame

TS_getAll(filters, pagination) ==
  /\ last' = [op |-> "TaskService.getAll", filters |-> filters, pagination |-> pagination,
              resp |-> Ok(getAllData(tasks, filters, pagination))]
  /\ UNCHANGED <<tasks, taskNextId, now>>
  /\ UserFrame

\* the assignments of TaskService.update, applied to the stored task
ApplyTaskUpdates(task, updates, t) ==
  [task EXCEPT
     !.title = IF updates.title # UndefStr THEN updates.title ELSE @,
     !.description = IF updates.description # UndefStr THEN updates.description ELSE @,
     !.priority = IF updates.priority # Undef THEN updates.priority ELSE @,
     !.assignedTo = IF updates.assignedTo # Undef THEN updates.assignedTo ELSE @,
     !.dueDate = IF updates.dueDate # UndefDate THEN updates.dueDate ELSE @,
     !.tags = IF updates.tags # UndefTags THEN updates.tags ELSE @,
     !.status = IF updates.status # Undef THEN updates.status ELSE @,
     !.updatedAt = t]

TS_update(id, updates) ==
  /\ LET taskIndex == FindTaskIndex(tasks, id)
     IN  IF taskIndex = 0
           THEN /\ tasks' = tasks
                /\ last' = [op |-> "TaskService.update", id |-> id, arg |-> updates,
                            resp |-> TaskNotFound(id)]
           ELSE LET task == ApplyTaskUpdates(tasks[taskIndex], updates, now)
                    validation == TaskValidate(task)
                IN  /\ tasks' = [tasks EXCEPT ![taskIndex] = task]
                    /\ last' = [op |-> "TaskService.update", id |-> id, arg |-> updates,
                                resp |-> IF ~validation.isValid
                                           THEN ValidationFailed(validation.errors)
                                           ELSE Ok(task)]
  /\ UNCHANGED <<taskNextId, now>>
  /\ UserFrame

\* delete without the test of the index: splice(-1, 1) removes the last task
TS_delete_SpliceOnMiss(id) ==
  /\ LET taskIndex == FindTaskIndex(tasks, id)
     IN  IF taskIndex = 0
           THEN /\ tasks' = SubSeq(tasks, 1, Len(tasks) - 1)
                /\ last' = [op |-> "TaskService.delete", id |-> id, resp |-> Ok(TRUE)]
           ELSE /\ tasks' = RemoveAt(tasks, taskIndex)
                /\ last' = [op |-> "TaskService.delete", id |-> id, resp |-> Ok(TRUE)]
  /\ UNCHANGED <<taskNextId, now>>
  /\ UserFrame

TS_delete(id) ==
  /\ LET taskIndex == FindTaskIndex(tasks, id)
     IN  IF taskIndex = 0
           THEN /\ tasks' = tasks
                /\ last' = [op |-> "TaskService.delete", id |-> id, resp |-> TaskNotFound(id)]
           ELSE /\ tasks' = RemoveAt(tasks, taskIndex)
                /\ last' = [op |-> "TaskService.delete", id |-> id, resp |-> Ok(TRUE)]
  /\ UNCHANGED <<taskNextId, now>>
  /\ UserFrame

TS_markComplete(id) ==
  /\ LET i == FindTaskIndex(tasks, id)
     IN  IF i = 0
           THEN /\ tasks' = tasks
                /\ last' = [op |-> "TaskService.markComplete", id |-> id,
                            resp |-> TaskNotFound(id)]
           ELSE /\ tasks' = [tasks EXCEPT ![i] = markComplete(@, now)]
                /\ last' = [op |-> "TaskService.markComplete", id |-> id,
                            resp |-> Ok(markComplete(tasks[i], now))]
  /\ UNCHANGED <<taskNextId, now>>
  /\ UserFrame

TS_clear ==
  /\ tasks' = <<>>
  /\ taskNextId' = 1
  /\ last' = [op |-> "TaskService.clear"]
  /\ UNCHANGED now
  /\ UserFrame

\* a caller calls markComplete() / markIncomplete() on the task object that
\* create or getById returned, which is the stored object
Task_markComplete(i) ==
  /\ i \in 1..Len(tasks)
  /\ tasks' = [tasks EXCEPT ![i] = markComplete(@, now)]
  /\ last' = [op |-> "Task.markComplete", id |-> tasks[i].id]
  /\ UNCHANGED <<taskNextId, now>>
  /\ UserFrame

Task_markIncomplete(i) ==
  /\ i \in 1..Len(tasks)
  /\ tasks' = [tasks EXCEPT ![i] = markIncomplete(@, now)]
  /\ last' = [op |-> "Task.markIncomplete", id |-> tasks[i].id]
  /\ UNCHANGED <<taskNextId, now>>
  /\ UserFrame

Task_update(i, updates) ==
  /\ i \in 1..Len(tasks)
  /\ tasks' = [tasks EXCEPT ![i] = TaskUpdate(@, updates, now)]
  /\ last' = [op |-> "Task.update", id |-> tasks[i].id, arg |-> updates]
  /\ UNCHANGED <<taskNextId, now>>
  /\ UserFrame

Task_addTag(i, tag) ==
  /\ i \in 1..Len(tasks)
  /\ tasks' = [tasks EXCEPT ![i] = addTag(@, tag, now)]
  /\ last' = [op |-> "Task.addTag", id |-> tasks[i].id, tag |-> tag]
  /\ UNCHANGED <<taskNextId, now>>
  /\ UserFrame

Task_removeTag(i, tag) ==
  /\ i \in 1..Len(tasks)
  /\ tasks' = [tasks EXCEPT ![i] = removeTag(@, tag, now)]
  /\ last' = [op |-> "Task.removeTag", id |-> tasks[i].id, tag |-> tag]
  /\ UNCHANGED <<taskNextId, now>>
  /\ UserFrame

(***************************************************************************)
(* models/User.ts                                                          *)
(***************************************************************************)
UserId(n) == <<"user_", n>>

\* a Partial<UserPreferences> with no key
NoPreferences == [theme |-> Undef, notifications |-> None, language |-> Undef, timezone |-> Undef]

\* { ...base, ...updates }
SpreadPreferences(base, updates) ==
  [theme |-> IF updates.theme # Undef THEN updates.theme ELSE base.theme,
   notifications |-> IF IsSome(updates.notifications) THEN updates.notifications
                     ELSE base.notifications,
   language |-> IF updates.language # Undef THEN updates.language ELSE base.language,
   timezone |-> IF updates.timezone # Undef THEN updates.timezone ELSE base.timezone]

defaultPreferences ==
  [theme |-> "light", notifications |-> Some(TRUE), language |-> "en", timezone |-> "UTC"]

\* new User(input) at time t
NewUser(input, id, t) ==
  [id |-> id,
   name |-> input.name,
   email |-> input.email,
   role |-> IF Truthy(input.role) THEN input.role ELSE "user",
   isActive |-> TRUE,
   createdAt |-> t,
   lastLogin |-> UndefDate,
   preferences |-> SpreadPreferences(defaultPreferences, input.preferences),
   loginAttempts |-> 0,
   isLocked |-> FALSE]

updatePreferences(user, updates) ==
  [user EXCEPT !.preferences = SpreadPreferences(@, updates)]

deactivate(user) == [user EXCEPT !.isActive = FALSE]

activate(user) == [user EXCEPT !.isActive = TRUE, !.isLocked = FALSE, !.loginAttempts = 0]

recordLogin(user, t) == [user EXCEPT !.lastLogin = t, !.isLocked = FALSE, !.loginAttempts = 0]

\* the lock set only above five attempts
recordFailedLogin_LockAboveFive(user) ==
  LET attempts == user.loginAttempts + 1
  IN  [user EXCEPT !.loginAttempts = attempts,
                   !.isLocked = IF attempts > 5 THEN TRUE ELSE @]

recordFailedLogin(user) ==
  LET attempts == user.loginAttempts + 1
  IN  [user EXCEPT !.loginAttempts = attempts,
                   !.isLocked = IF attempts >= 5 THEN TRUE ELSE @]

isAdmin(user) == user.role = "admin"

canManageUsers(user) == user.role = "admin" \/ user.role = "manager"

(***************************************************************************)
(* services/UserService.ts                                                 *)
(***************************************************************************)
MaxUserId == 3

AdminName == <<"S", "y", "s", "t", "e", "m", " ", "A", "d", "m", "i", "n", "i", "s", "t", "r", "a", "t", "o", "r">>
AdminEmail == <<"a", "d", "m", "i", "n", "@", "t", "a", "s", "k", "m", "a", "n", "a", "g", "e", "r", ".", "c", "o", "m">>

\* createDefaultAdmin, called by the constructor with nextId = 1
DefaultAdmin(t) ==
  NewUser([name |-> AdminName, email |-> AdminEmail, role |-> "admin",
           preferences |-> [theme |-> "dark", notifications |-> Some(TRUE),
                            language |-> "en", timezone |-> "UTC"]],
          UserId(1), t)

TaskFrame == UNCHANGED <<tasks, taskNextId>>

\* `User with ID ${id} not found`
UserNotFound(id) == Fail("User with ID ... not found", id)

\* users.findIndex(u => u.id === id), 0 for -1
FindUserIndex(us, id) ==
  IF \E i \in 1..Len(us) : us[i].id = id
    THEN CHOOSE i \in 1..Len(us) : us[i].id = id /\ \A j \in 1..(i - 1) : us[j].id # id
    ELSE 0

\* the count without the role test
AdminCount_NoRoleTest(us) == Len(us)

\* users.filter(u => u.role === UserRole.ADMIN).length
AdminCount(us) == Cardinality({i \in 1..Len(us) : us[i].role = "admin"})

US_create(userData, createdBy) ==
  /\ userNextId <= MaxUserId
  /\ Len(users) < MaxUsers
  /\ IF IsSome(createdBy) /\ ~canManageUsers(Val(createdBy))
       THEN /\ UNCHANGED <<users, userNextId>>
            /\ last' = [op |-> "UserService.create", arg |-> userData, by |-> createdBy,
                        resp |-> Fail("Insufficient permissions to create users", <<>>)]
       ELSE IF \E i \in 1..Len(users) : users[i].email = userData.email
         THEN /\ UNCHANGED <<users, userNextId>>
              /\ last' = [op |-> "UserService.create", arg |-> userData, by |-> createdBy,
                          resp |-> Fail("User with this email already exists", <<>>)]
         ELSE LET user == NewUser(userData, UserId(userNextId), now)
                  validation == UserValidate(user)
              IN  /\ userNextId' = userNextId + 1
                  /\ IF ~validation.isValid
                       THEN /\ users' = users
                            /\ last' = [op |-> "UserService.create", arg |-> userData,
                                        by |-> createdBy,
                                        resp |-> ValidationFailed(validation.errors)]
                       ELSE /\ users' = Append(users, user)
                            /\ last' = [op |-> "UserService.create", arg |-> userData,
                                        by |-> createdBy, resp |-> Ok(user)]
  /\ UNCHANGED now
  /\ TaskFrame

\* UserService.update from "Apply updates" on: the user as left by the call
\* and the response
UserUpdateOutcome(us, i, updates) ==
  LET id == us[i].id
      u1 == IF updates.name # UndefStr THEN [us[i] EXCEPT !.name = updates.name] ELSE us[i]
      taken == updates.email # UndefStr
               /\ \E k \in 1..Len(us) : us[k].email = updates.email /\ us[k].id # id
      u2 == IF updates.email # UndefStr THEN [u1 EXCEPT !.email = updates.email] ELSE u1
      u3 == IF updates.role # Undef THEN [u2 EXCEPT !.role = updates.role] ELSE u2
      u4 == IF IsSome(updates.isActive) THEN [u3 EXCEPT !.isActive = Val(updates.isActive)] ELSE u3
      u5 == IF IsSome(updates.preferences)
              THEN updatePreferences(u4, Val(updates.preferences)) ELSE u4
      validation == UserValidate(u5)
  IN  IF taken
        THEN [user |-> u1, resp |-> Fail("Email is already taken by another user", <<>>)]
        ELSE [user |-> u5,
              resp |-> IF ~validation.isValid THEN ValidationFailed(validation.errors)
                       ELSE Ok(u5)]

\* update with the role test on canManageUsers for isAdmin
US_update_ManagersChangeRoles(id, updates, updatedBy) ==
  /\ LET i == FindUserIndex(users, id)
         rec(resp) == [op |-> "UserService.update", id |-> id, arg |-> updates,
                       by |-> updatedBy, resp |-> resp]
     IN  IF i = 0
           THEN users' = users /\ last' = rec(UserNotFound(id))
         ELSE IF IsSome(updatedBy)
                 /\ ~(Val(updatedBy).id = id \/ canManageUsers(Val(updatedBy)))
           THEN /\ users' = users
                /\ last' = rec(Fail("Insufficient permissions to update this user", <<>>))
         ELSE IF IsSome(updatedBy) /\ Truthy(updates.role) /\ ~canManageUsers(Val(updatedBy))
           THEN /\ users' = users
                /\ last' = rec(Fail("Only administrators can change user roles", <<>>))
         ELSE LET out == UserUpdateOutcome(users, i, updates)
              IN  /\ users' = [users EXCEPT ![i] = out.user]
                  /\ last' = rec(out.resp)
  /\ UNCHANGED <<userNextId, now>>
  /\ TaskFrame

US_update(id, updates, updatedBy) ==
  /\ LET i == FindUserIndex(users, id)
         rec(resp) == [op |-> "UserService.update", id |-> id, arg |-> updates,
                       by |-> updatedBy, resp |-> resp]
     IN  IF i = 0
           THEN users' = users /\ last' = rec(UserNotFound(id))
         ELSE IF IsSome(updatedBy)
                 /\ ~(Val(updatedBy).id = id \/ canManageUsers(Val(updatedBy)))
           THEN /\ users' = users
                /\ last' = rec(Fail("Insufficient permissions to update this user", <<>>))
         ELSE IF IsSome(updatedBy) /\ Truthy(updates.role) /\ ~isAdmin(Val(updatedBy))
           THEN /\ users' = users
                /\ last' = rec(Fail("Only administrators can change user roles", <<>>))
         ELSE LET out == UserUpdateOutcome(users, i, updates)
              IN  /\ users' = [users EXCEPT ![i] = out.user]
                  /\ last' = rec(out.resp)
  /\ UNCHANGED <<userNextId, now>>
  /\ TaskFrame

US_delete(id, deletedBy) ==
  /\ LET userIndex == FindUserIndex(users, id)
         rec(resp) == [op |-> "UserService.delete", id |-> id, by |-> deletedBy,
                       userToDelete |-> IF userIndex = 0 THEN None ELSE Some(users[userIndex]),
                       resp |-> resp]
     IN  IF userIndex = 0
           THEN users' = users /\ last' = rec(UserNotFound(id))
         ELSE IF IsSome(deletedBy) /\ ~canManageUsers(Val(deletedBy))
           THEN /\ users' = users
                /\ last' = rec(Fail("Insufficient permissions to delete users", <<>>))
         ELSE IF users[userIndex].role = "admin" /\ AdminCount(users) <= 1
           THEN /\ users' = users
                /\ last' = rec(Fail("Cannot delete the last administrator", <<>>))
         ELSE /\ users' = RemoveAt(users, userIndex)
              /\ last' = rec(Ok(TRUE))
  /\ UNCHANGED <<userNextId, now>>
  /\ TaskFrame

\* users.find(u => u.email === email): its index, 0 for undefined
FindUserByEmail(us, email) ==
  IF \E i \in 1..Len(us) : us[i].email = email
    THEN CHOOSE i \in 1..Len(us) : us[i].email = email /\ \A j \in 1..(i - 1) : us[j].email # email
    ELSE 0

\* authenticate without the test of the lock
US_authenticate_NoLockTest(email, password) ==
  /\ LET i == FindUserByEmail(users, email)
         rec(resp) == [op |-> "UserService.authenticate", email |-> email, resp |-> resp]
     IN  IF i = 0
           THEN users' = users /\ last' = rec(Fail("Invalid credentials", <<>>))
         ELSE IF ~users[i].isActive
           THEN users' = users /\ last' = rec(Fail("Account is deactivated", <<>>))
         ELSE /\ users' = [users EXCEPT ![i] = recordLogin(@, now)]
              /\ last' = rec(Ok(recordLogin(users[i], now)))
  /\ UNCHANGED <<userNextId, now>>
  /\ TaskFrame

US_authenticate(email, password) ==
  /\ LET i == FindUserByEmail(users, email)
         rec(resp) == [op |-> "UserService.authenticate", email |-> email, resp |-> resp]
     IN  IF i = 0
           THEN users' = users /\ last' = rec(Fail("Invalid credentials", <<>>))
         ELSE IF ~users[i].isActive
           THEN users' = users /\ last' = rec(Fail("Account is deactivated", <<>>))
         ELSE IF users[i].isLocked
           THEN /\ users' = users
                /\ last' = rec(Fail("Account is locked due to too many failed login attempts",
                                    <<>>))
         ELSE /\ users' = [users EXCEPT ![i] = recordLogin(@, now)]
              /\ last' = rec(Ok(recordLogin(users[i], now)))
  /\ UNCHANGED <<userNextId, now>>
  /\ TaskFrame

\* a caller calls a method of the user object that create or getById
\* returned, which is the stored object
MaxLoginAttempts == 6

User_deactivate(i) ==
  /\ i \in 1..Len(users)
  /\ users' = [users EXCEPT ![i] = deactivate(@)]
  /\ last' = [op |-> "User.deactivate", index |-> i]
  /\ UNCHANGED <<userNextId, now>>
  /\ TaskFrame

User_activate(i) ==
  /\ i \in 1..Len(users)
  /\ users' = [users EXCEPT ![i] = activate(@)]
  /\ last' = [op |-> "User.activate", index |-> i]
  /\ UNCHANGED <<userNextId, now>>
  /\ TaskFrame

User_recordLogin(i) ==
  /\ i \in 1..Len(users)
  /\ users' = [users EXCEPT ![i] = recordLogin(@, now)]
  /\ last' = [op |-> "User.recordLogin", index |-> i]
  /\ UNCHANGED <<userNextId, now>>
  /\ TaskFrame

User_recordFailedLogin(i) ==
  /\ i \in 1..Len(users)
  /\ users[i].loginAttempts < MaxLoginAttempts
  /\ users' = [users EXCEPT ![i] = recordFailedLogin(@)]
  /\ last' = [op |-> "User.recordFailedLogin", index |-> i]
  /\ UNCHANGED <<userNextId, now>>
  /\ TaskFrame

US_clear ==
  /\ LET hasAdmin == \E i \in 1..Len(users) : users[i].role = "admin"
         admin == users[CHOOSE i \in 1..Len(users) :
                          /\ users[i].role = "admin"
                          /\ \A j \in 1..(i - 1) : users[j].role # "admin"]
     IN  /\ users' = IF hasAdmin THEN <<admin>> ELSE <<>>
         /\ userNextId' = IF hasAdmin THEN 2 ELSE 1
  /\ last' = [op |-> "UserService.clear"]
  /\ UNCHANGED now
  /\ TaskFrame

(***************************************************************************)
(* The state after `new TaskService()` and `new UserService()`.            *)
(***************************************************************************)
Init ==
  /\ tasks = <<>>
  /\ taskNextId = 1
  /\ now = 1
  /\ users = <<DefaultAdmin(1)>>
  /\ userNextId = 2
  /\ last = [op |-> "new"]

(***************************************************************************)
(* Validation of candidate records (Task.validate, validateTaskData,       *)
(* User.validate, validateUserData).                                       *)
(***************************************************************************)
\* a call that has been issued and not yet executed
Call(fn, arg) == [op |-> "call", fn |-> fn, arg |-> arg]

Pending(fn) == last.op = "call" /\ last.fn = fn

V_TaskValidate ==
  /\ Pending("Task.validate")
  /\ last' = [op |-> "Task.validate", arg |-> last.arg, res |-> TaskValidate(last.arg)]
  /\ UNCHANGED <<tasks, taskNextId, users, userNextId, now>>

V_validateTaskData ==
  /\ Pending("validateTaskData")
  /\ last' = [op |-> "validateTaskData", arg |-> last.arg, res |-> validateTaskData(last.arg)]
  /\ UNCHANGED <<tasks, taskNextId, users, userNextId, now>>

\* the Task object as validateTaskData reads it: the same fields, and tags
\* is an array of strings
TaskDataOf(t) ==
  [title |-> t.title, description |-> t.description, priority |-> t.priority,
   status |-> t.status, createdAt |-> t.createdAt, dueDate |-> t.dueDate,
   tagsKind |-> "strings"]

\* the two validators applied to the same task
V_bothTaskValidators ==
  /\ Pending("Task.validate, validateTaskData")
  /\ last' = [op |-> "Task.validate, validateTaskData", arg |-> last.arg,
              res |-> TaskValidate(last.arg),
              dataRes |-> validateTaskData(TaskDataOf(last.arg))]
  /\ UNCHANGED <<tasks, taskNextId, users, userNextId, now>>

V_UserValidate ==
  /\ Pending("User.validate")
  /\ last' = [op |-> "User.validate", arg |-> last.arg, res |-> UserValidate(last.arg)]
  /\ UNCHANGED <<tasks, taskNextId, users, userNextId, now>>

V_validateUserData ==
  /\ Pending("validateUserData")
  /\ last' = [op |-> "validateUserData", arg |-> last.arg, res |-> validateUserData(last.arg)]
  /\ UNCHANGED <<tasks, taskNextId, users, userNextId, now>>

TitleInputs ==
  {UndefStr, <<>>, <<" ">>, <<"a">>, <<" ", "a", " ">>,
   Rep("a", 200), Rep("a", 201), Rep(" ", 201)}

DescriptionInputs == {UndefStr, <<>>, <<"d">>, Rep("d", 1000), Rep("d", 1001)}

\* Task objects: the fields a Task has after construction and assignments
TaskObjectInputs ==
  [id : {TaskId(1)}, title : TitleInputs, description : DescriptionInputs,
   priority : {"medium", "invalid"}, status : {"todo", "done", "invalid"},
   assignedTo : {Undef}, createdAt : {1}, updatedAt : {1},
   dueDate : {UndefDate, 0, 1, 2}, tags : {<<>>}, completed : {FALSE}]

\* plain task records handed to validateTaskData
TaskDataInputs ==
  [title : TitleInputs, description : DescriptionInputs,
   priority : {Undef, "high", "invalid"}, status : {Undef, "done", "invalid"},
   createdAt : {1}, dueDate : {UndefDate, NaNDate, 0, 1, 2},
   tagsKind : {"absent", "strings", "mixed", "notarray"}]

\* complete Task objects: a title, an enumerated priority and status, dates
CompleteTaskInputs ==
  [id : {TaskId(1)}, title : TitleInputs \ {UndefStr}, description : DescriptionInputs,
   priority : {"medium", "high"}, status : {"todo", "done"},
   assignedTo : {Undef}, createdAt : {1}, updatedAt : {1},
   dueDate : {UndefDate, 0, 1, 2}, tags : {<<>>, <<"x">>}, completed : {FALSE}]

NameInputs ==
  {UndefStr, <<>>, <<" ">>, <<"B", "o", "b">>, Rep("n", 100), Rep("n", 101), Rep(" ", 101)}

EmailInputs ==
  {UndefStr, <<>>, <<" ">>, <<"b", "@", "x", ".", "i", "o">>, <<"a", "@", "b">>, <<"a", " ", "b", "@", "c", ".", "d">>, <<"@", "b", ".", "c">>, <<"a", "@", ".", "c">>, <<"a", "@", "b", ".">>, <<"a", "@", "b", "@", "c", ".", "d">>, <<"a", "@", "b", ".", "c", ".", "d">>, <<"a", "b", ".", "c">>}

RoleInputs == {Undef, "admin", "guest", "superuser"}

UserObjectInputs ==
  [id : {UserId(2)}, name : NameInputs, email : EmailInputs,
   role : RoleInputs \ {Undef}, isActive : {TRUE}, createdAt : {1}, lastLogin : {UndefDate},
   preferences : {defaultPreferences}, loginAttempts : {0}, isLocked : {FALSE}]

UserDataInputs == [name : NameInputs, email : EmailInputs, role : RoleInputs]

\* a validator is about to be called on a candidate record
InitValidate ==
  /\ tasks = <<>>
  /\ taskNextId = 1
  /\ now = 1
  /\ users = <<DefaultAdmin(1)>>
  /\ userNextId = 2
  /\ last \in {Call("Task.validate", t) : t \in TaskObjectInputs}
            \cup {Call("validateTaskData", d) : d \in TaskDataInputs}
            \cup {Call("User.validate", u) : u \in UserObjectInputs}
            \cup {Call("validateUserData", d) : d \in UserDataInputs}
            \cup {Call("Task.validate, validateTaskData", t) : t \in CompleteTaskInputs}

NextValidate ==
  \/ V_TaskValidate
  \/ V_validateTaskData
  \/ V_UserValidate
  \/ V_validateUserData
  \/ V_bothTaskValidators

SpecValidate == InitValidate /\ [][NextValidate]_vars

(***************************************************************************)
(* UserService driven by its callers.                                      *)
(***************************************************************************)
Bob == <<"B", "o", "b">>
BobEmail == <<"b", "@", "x", ".", "i", "o">>
AnnEmail == <<"a", "@", "x", ".", "i", "o">>

UserCreateInputs ==
  {[name |-> Bob, email |-> BobEmail, role |-> Undef, preferences |-> NoPreferences],
   [name |-> Bob, email |-> AnnEmail, role |-> "admin", preferences |-> NoPreferences],
   [name |-> <<>>, email |-> BobEmail, role |-> Undef, preferences |-> NoPreferences]}

\* the demo's first user: a name, an email, no role
UserCreateInputs_First ==
  [name |-> Bob, email |-> BobEmail, role |-> Undef, preferences |-> NoPreferences]

NoUserUpdates ==
  [name |-> UndefStr, email |-> UndefStr, role |-> Undef, isActive |-> None,
   preferences |-> None]

UserUpdateInputs ==
  {[NoUserUpdates EXCEPT !.role = "user"],
   [NoUserUpdates EXCEPT !.role = "admin"],
   [NoUserUpdates EXCEPT !.email = BobEmail]}

\* the identifiers a caller passes: those issued so far and one never issued
UserIdInputs == {UserId(n) : n \in 1..MaxUserId} \cup {<<"non-existent", 0>>}

\* the acting user a caller passes: none, or one of the stored users
Actors == {None} \cup {Some(users[i]) : i \in 1..Len(users)}

NextUser ==
  \/ \E d \in UserCreateInputs : \E by \in Actors : US_create(d, by)
  \/ \E id \in UserIdInputs : \E u \in UserUpdateInputs : \E by \in Actors : US_update(id, u, by)
  \/ \E id \in UserIdInputs : \E by \in Actors : US_delete(id, by)
  \/ US_clear

SpecUser == Init /\ [][NextUser]_vars

(***************************************************************************)
(* Logins: the users of a UserService, their login methods and             *)
(* authenticate, while time passes.                                        *)
(***************************************************************************)
MaxTime == 2

\* time passes between two calls
Tick ==
  /\ now < MaxTime
  /\ now' = now + 1
  /\ UNCHANGED <<tasks, taskNextId, users, userNextId, last>>

\* the emails a caller logs in with: the administrator's, Bob's, and one
\* that no user has
LoginEmailInputs == {AdminEmail, BobEmail, AnnEmail}

NextLogin ==
  \/ US_create(UserCreateInputs_First, None)
  \/ \E i \in 1..MaxUsers : User_deactivate(i)
  \/ \E i \in 1..MaxUsers : User_activate(i)
  \/ \E i \in 1..MaxUsers : User_recordLogin(i)
  \/ \E i \in 1..MaxUsers : User_recordFailedLogin(i)
  \/ \E email \in LoginEmailInputs : US_authenticate(email, "secret")
  \/ Tick

SpecLogin == Init /\ [][NextLogin]_vars

(***************************************************************************)
(* UserService with callers that edit users: updates that are rejected     *)
(* (an empty name, an email that another user has) and updates of the     *)
(* role, by no actor, by a stored user and by a manager.                   *)
(***************************************************************************)
Ann == <<"A", "n", "n">>

UserEditInputs ==
  {[NoUserUpdates EXCEPT !.name = <<>>],
   [NoUserUpdates EXCEPT !.name = Ann, !.email = AdminEmail],
   [NoUserUpdates EXCEPT !.role = "admin"]}

\* a User object of role manager that the caller holds
Manager ==
  NewUser([name |-> Ann, email |-> AnnEmail, role |-> "manager",
           preferences |-> NoPreferences], <<"user_", 0>>, 1)

EditActors == Actors \cup {Some(Manager)}

NextUserEdit ==
  \/ \E by \in Actors : US_create(UserCreateInputs_First, by)
  \/ \E id \in UserIdInputs : \E u \in UserEditInputs : \E by \in EditActors :
       US_update(id, u, by)

SpecUserEdit == Init /\ [][NextUserEdit]_vars

(***************************************************************************)
(* TaskService driven by its callers.                                      *)
(***************************************************************************)
NoTaskInput ==
  [title |-> UndefStr, description |-> UndefStr, priority |-> Undef, assignedTo |-> Undef,
   dueDate |-> UndefDate, tags |-> UndefTags]

TaskCreateInputs ==
  {[NoTaskInput EXCEPT !.title = <<"a">>],
   [NoTaskInput EXCEPT !.title = <<" ">>]}

NoTaskUpdates ==
  [title |-> UndefStr, description |-> UndefStr, priority |-> Undef, assignedTo |-> Undef,
   dueDate |-> UndefDate, tags |-> UndefTags, status |-> Undef]

TaskUpdateInputs ==
  {[NoTaskUpdates EXCEPT !.status = "done"],
   [NoTaskUpdates EXCEPT !.status = "in-progress"]}

\* the identifiers a caller passes: those issued so far and one never issued
TaskIdInputs == {TaskId(n) : n \in 1..MaxTaskId} \cup {<<"non-existent", 0>>}

NoFilters ==
  [status |-> None, priority |-> None, assignedTo |-> Undef, completed |-> None,
   dateRange |-> None, tags |-> UndefTags]

\* the listing calls of the lifecycle: everything, and the completed tasks
\* sorted by status, first page
TaskListInputs ==
  {<<None, None>>,
   <<Some([NoFilters EXCEPT !.completed = Some(TRUE)]),
     Some([page |-> 1, limit |-> 1, sortBy |-> "status", sortOrder |-> Undef])>>}

NextTask ==
  \/ \E d \in TaskCreateInputs : TS_create(d)
  \/ \E id \in TaskIdInputs : \E u \in TaskUpdateInputs : TS_update(id, u)
  \/ \E id \in TaskIdInputs : TS_delete(id)
  \/ \E id \in TaskIdInputs : TS_markComplete(id)
  \/ \E i \in 1..MaxTasks : Task_markComplete(i)
  \/ \E i \in 1..MaxTasks : Task_markIncomplete(i)
  \/ \E id \in TaskIdInputs : TS_getById(id)
  \/ \E q \in TaskListInputs : TS_getAll(q[1], q[2])
  \/ TS_clear

SpecTask == Init /\ [][NextTask]_vars

(***************************************************************************)
(* TaskService with callers that edit tasks: updates of the title and of   *)
(* the due date, among them an empty title and a due date before the       *)
(* creation of the task.                                                   *)
(***************************************************************************)
TaskEditInputs ==
  {[NoTaskUpdates EXCEPT !.title = <<"b">>],
   [NoTaskUpdates EXCEPT !.title = <<>>],
   [NoTaskUpdates EXCEPT !.dueDate = 0]}

NextTaskEdit ==
  \/ \E d \in TaskCreateInputs : TS_create(d)
  \/ \E id \in TaskIdInputs : \E u \in TaskEditInputs : TS_update(id, u)
  \/ \E id \in TaskIdInputs : TS_delete(id)
  \/ \E id \in TaskIdInputs : TS_markComplete(id)

SpecTaskEdit == Init /\ [][NextTaskEdit]_vars

(***************************************************************************)
(* Tasks and their tags: construction from a tag list, addTag, removeTag,  *)
(* Task.update and TaskService.update.                                     *)
(***************************************************************************)
TagInputs == {"x", "y"}

TagListInputs == {<<>>, <<"x">>, <<"x", "y">>, <<"x", "x">>}

TaggedCreateInputs ==
  {[NoTaskInput EXCEPT !.title = <<"a">>]}
  \cup {[NoTaskInput EXCEPT !.title = <<"a">>, !.tags = l] : l \in TagListInputs}

TagUpdateInputs == {[NoTaskUpdates EXCEPT !.tags = l] : l \in TagListInputs}

NextTags ==
  \/ \E d \in TaggedCreateInputs : TS_create(d)
  \/ \E id \in TaskIdInputs : \E u \in TagUpdateInputs : TS_update(id, u)
  \/ \E i \in 1..MaxTasks : \E u \in TagUpdateInputs : Task_update(i, u)
  \/ \E i \in 1..MaxTasks : \E tag \in TagInputs : Task_addTag(i, tag)
  \/ \E i \in 1..MaxTasks : \E tag \in TagInputs : Task_removeTag(i, tag)

SpecTags == Init /\ [][NextTags]_vars

(***************************************************************************)
(* getAll on a populated TaskService.  The stores are those that create,   *)
(* update and markComplete calls at times 1, 2 and 3 leave behind.         *)
(***************************************************************************)
\* the task number k of the store, made in one of five ways
QueryTask(way, k) ==
  CASE way = 1 ->
         NewTask([NoTaskInput EXCEPT !.title = <<"a">>], TaskId(k), 1)
    [] way = 2 ->
         NewTask([NoTaskInput EXCEPT !.title = <<"b">>, !.priority = "high",
                                     !.assignedTo = "u1", !.tags = <<"x">>, !.dueDate = 3],
                 TaskId(k), 2)
    [] way = 3 ->
         markComplete(NewTask([NoTaskInput EXCEPT !.title = <<"a">>], TaskId(k), 2), 2)
    [] way = 4 ->
         ApplyTaskUpdates(
           NewTask([NoTaskInput EXCEPT !.title = <<"b">>, !.priority = "high",
                                       !.assignedTo = "u1", !.dueDate = 4], TaskId(k), 3),
           [NoTaskUpdates EXCEPT !.status = "done"], 3)
    [] way = 5 ->
         ApplyTaskUpdates(
           NewTask([NoTaskInput EXCEPT !.title = <<"c">>, !.priority = "low",
                                       !.assignedTo = "u2", !.tags = <<"x", "y">>],
                   TaskId(k), 3),
           [NoTaskUpdates EXCEPT !.status = "in-progress"], 3)

QueryWays == 1..5

\* the stores: tasks in creation order
QueryStores ==
  UNION {{[k \in 1..n |-> QueryTask(w[k], k)] :
            w \in {v \in [1..n -> QueryWays] :
                     \A k \in 1..(n - 1) :
                       QueryTask(v[k], k).createdAt <= QueryTask(v[k + 1], k + 1).createdAt}} :
         n \in 0..MaxQueryTasks}

QueryFilterInputs ==
  [status : {None, Some(Single("done")),
             Some(Many(<<"todo", "in-progress">>)),
             Some(Many(<<>>))},
   priority : {None, Some(Single("high")),
               Some(Many(<<"high", "medium">>))},
   assignedTo : {Undef, "", "u1"},
   completed : {None, Some(TRUE), Some(FALSE)},
   dateRange : {None, Some([start |-> 2, end |-> 2]), Some([start |-> 1, end |-> 2])},
   tags : {UndefTags, <<>>, <<"x">>, <<"y", "z">>}]

QuerySortKeys == {Undef, "assignedTo", "dueDate", "priority", "status", "createdAt", "completed"}

QueryPaginationInputs ==
  [page : 1..MaxPage, limit : 1..MaxLimit, sortBy : QuerySortKeys,
   sortOrder : {Undef, "asc", "desc"}]

\* the demo's filter: priority in [HIGH, MEDIUM]
DemoFilter ==
  [NoFilters EXCEPT !.priority = Some(Many(<<"high", "medium">>))]

\* the calls: every filter without pagination, and every pagination without
\* a filter and with the demo's filter
QueryInputs ==
  {[filters |-> Some(f), pagination |-> None] : f \in QueryFilterInputs}
  \cup {[filters |-> None, pagination |-> None]}
  \cup {[filters |-> f, pagination |-> Some(p)] :
          f \in {None, Some(DemoFilter)}, p \in QueryPaginationInputs}

InitQuery ==
  /\ tasks \in QueryStores
  /\ taskNextId = Len(tasks) + 1
  /\ now = 3
  /\ users = <<DefaultAdmin(1)>>
  /\ userNextId = 2
  /\ last \in {Call("TaskService.getAll", q) : q \in QueryInputs}

\* the pending getAll call is executed
Q_getAll ==
  /\ Pending("TaskService.getAll")
  /\ TS_getAll(last.arg.filters, last.arg.pagination)

NextQuery == Q_getAll

SpecQuery == InitQuery /\ [][NextQuery]_vars

(***************************************************************************)
(* utils/helpers.ts : calculateCompletionRate.  JavaScript numbers are     *)
(* IEEE 754 binary64: a positive number is a significand of F64Precision   *)
(* bits, most significant first and starting with 1, and the exponent of   *)
(* its first bit; every operation rounds its exact result to the nearest   *)
(* such number, ties to the even significand.                              *)
(***************************************************************************)
F64Precision == 53

\* the bits are handled F64Chunk at a time
F64Chunk == 8

\* the number written by at most F64Chunk bits, most significant first
RECURSIVE BitsToInt(_)
BitsToInt(bits) ==
  IF bits = <<>> THEN 0
  ELSE 2 * BitsToInt(SubSeq(bits, 1, Len(bits) - 1)) + bits[Len(bits)]

\* the w lowest bits of n, most significant first
LowBits(n, w) == [i \in 1..w |-> (n \div (2 ^ (w - i))) % 2]

\* the bits of n < 2^F64Chunk without leading zeros
RECURSIVE IntToBits(_)
IntToBits(n) == IF n = 0 THEN <<>> ELSE IntToBits(n \div 2) \o <<n % 2>>

\* bits + 1, with the carry out of the first bit
IncrementBits(bits) ==
  LET zeros == {i \in 1..Len(bits) : bits[i] = 0}
  IN  IF zeros = {} THEN [bits |-> [i \in 1..Len(bits) |-> 0], carry |-> 1]
      ELSE LET z == CHOOSE i \in zeros : \A j \in zeros : j <= i
           IN  [bits |-> [i \in 1..Len(bits) |->
                            IF i < z THEN bits[i] ELSE IF i = z THEN 1 ELSE 0],
                carry |-> 0]

\* the significand kept, rounded up when roundUp
F64Round(kept, exp, roundUp) ==
  IF ~roundUp THEN [bits |-> kept, exp |-> exp]
  ELSE LET inc == IncrementBits(kept)
       IN  IF inc.carry = 1
             THEN [bits |-> <<1>> \o SubSeq(inc.bits, 1, Len(inc.bits) - 1), exp |-> exp + 1]
             ELSE [bits |-> inc.bits, exp |-> exp]

\* binary long division: the next n bits of r / d for 0 <= r < d, and the
\* remainder left after them
RECURSIVE QuotientBits(_, _, _)
QuotientBits(r, d, n) ==
  IF n = 0 THEN [bits |-> <<>>, rem |-> r]
  ELSE LET w == IF n < F64Chunk THEN n ELSE F64Chunk
           rest == QuotientBits((r * 2 ^ w) % d, d, n - w)
       IN  [bits |-> LowBits((r * 2 ^ w) \div d, w) \o rest.bits, rem |-> rest.rem]

\* the position after the binary point of the first 1 of r / d, 0 < r < d
RECURSIVE FirstOne(_, _)
FirstOne(r, d) == IF 2 * r >= d THEN 1 ELSE 1 + FirstOne(2 * r, d)

\* a / b for integers 0 < a <= b
F64Div(a, b) ==
  IF a = b THEN [bits |-> <<1>> \o [i \in 1..(F64Precision - 1) |-> 0], exp |-> 0]
  ELSE LET k == FirstOne(a, b)
           q == QuotientBits(a, b, k + F64Precision - 1)
           kept == SubSeq(q.bits, k, k + F64Precision - 1)
           roundUp == \/ 2 * q.rem > b
                      \/ (2 * q.rem = b /\ kept[F64Precision] = 1)
       IN  F64Round(kept, 0 - k, roundUp)

\* the bits of bits * k + carry, for a small integer k
RECURSIVE TimesSmall(_, _, _)
TimesSmall(bits, k, carry) ==
  IF bits = <<>> THEN IntToBits(carry)
  ELSE LET w == IF Len(bits) < F64Chunk THEN Len(bits) ELSE F64Chunk
           v == BitsToInt(SubSeq(bits, Len(bits) - w + 1, Len(bits))) * k + carry
       IN  TimesSmall(SubSeq(bits, 1, Len(bits) - w), k, v \div (2 ^ w))
           \o LowBits(v, w)

\* x * k for a positive number x and a small integer k >= 1
F64Times(x, k) ==
  LET product == TimesSmall(x.bits, k, 0)
      more == Len(product) - F64Precision
      kept == SubSeq(product, 1, F64Precision)
      guard == more >= 1 /\ product[F64Precision + 1] = 1
      sticky == \E i \in (F64Precision + 2)..Len(product) : product[i] = 1
      roundUp == guard /\ (sticky \/ kept[F64Precision] = 1)
  IN  F64Round(kept, x.exp + more, roundUp)

\* Math.round(x) for a positive number x below 2^F64Precision: the integer
\* nearest to x, the upper one when x is halfway
MathRound(x) ==
  IF x.exp < 0 - 1 THEN 0
  ELSE IF x.exp = 0 - 1 THEN 1
  ELSE BitsToInt(SubSeq(x.bits, 1, x.exp + 1))
       + (IF x.exp + 2 <= F64Precision THEN x.bits[x.exp + 2] ELSE 0)

calculateCompletionRate(ts) ==
  IF Len(ts) = 0 THEN 0
  ELSE LET completedTasks == Len(SelectSeq(ts, LAMBDA task : task.completed))
       IN  IF completedTasks = 0 THEN 0
           ELSE MathRound(F64Times(F64Div(completedTasks, Len(ts)), 100))

(***************************************************************************)
(* models/User.ts : User.canAccess                                         *)
(***************************************************************************)
roleHierarchy ==
  [r \in UserRole |-> CASE r = "guest" -> 0 [] r = "user" -> 1
                        [] r = "manager" -> 2 [] r = "admin" -> 3]

\* the comparison with > for >=
canAccess_Strict(user, requiredRole) ==
  roleHierarchy[user.role] > roleHierarchy[requiredRole]

canAccess(user, requiredRole) ==
  roleHierarchy[user.role] >= roleHierarchy[requiredRole]

(***************************************************************************)
(* models/User.ts : User.canChangeRole, User.changeRole                    *)
(***************************************************************************)
\* user.canChangeRole(targetUser)
canChangeRole(user, targetUser) ==
  IF ~isAdmin(user) THEN FALSE
  ELSE IF targetUser.role = "admin" /\ targetUser.id # user.id THEN FALSE
  ELSE TRUE

\* user.changeRole(newRole, adminUser): the value returned and the user after
\* the call
changeRole(user, newRole, adminUser) ==
  IF ~canChangeRole(user, adminUser)
    THEN [returned |-> FALSE, user |-> user]
    ELSE [returned |-> TRUE, user |-> [user EXCEPT !.role = newRole]]

(***************************************************************************)
(* The helpers on their inputs: calculateCompletionRate on task lists and  *)
(* canAccess on users.                                                     *)
(***************************************************************************)
MaxRateTasks == 40

\* a list of total tasks of which the first `completed` are completed
RateList(completed, total) ==
  [k \in 1..total |->
     IF k <= completed
       THEN markComplete(NewTask([NoTaskInput EXCEPT !.title = <<"a">>], TaskId(k), 1), 1)
       ELSE NewTask([NoTaskInput EXCEPT !.title = <<"a">>], TaskId(k), 1)]

RateInputs == UNION {{RateList(c, t) : c \in 0..t} : t \in 0..MaxRateTasks}

\* a user of each role under two identifiers
RoleUsers ==
  {NewUser([name |-> Bob, email |-> BobEmail, role |-> r, preferences |-> NoPreferences],
           UserId(n), 1) : r \in UserRole, n \in {2, 3}}

\* target, new role and acting user of changeRole
ChangeRoleInputs ==
  [user : RoleUsers, newRole : UserRole, adminUser : RoleUsers]

AccessInputs ==
  {[user |-> NewUser([name |-> Bob, email |-> BobEmail, role |-> r,
                      preferences |-> NoPreferences], UserId(2), 1),
    requiredRole |-> q] : r \in UserRole, q \in UserRole}

H_calculateCompletionRate ==
  /\ Pending("calculateCompletionRate")
  /\ last' = [op |-> "calculateCompletionRate", arg |-> last.arg,
              res |-> calculateCompletionRate(last.arg.tasks)]
  /\ UNCHANGED <<tasks, taskNextId, users, userNextId, now>>

H_canAccess ==
  /\ Pending("User.canAccess")
  /\ last' = [op |-> "User.canAccess", arg |-> last.arg,
              res |-> canAccess(last.arg.user, last.arg.requiredRole)]
  /\ UNCHANGED <<tasks, taskNextId, users, userNextId, now>>

H_changeRole ==
  /\ Pending("User.changeRole")
  /\ last' = [op |-> "User.changeRole", arg |-> last.arg,
              res |-> changeRole(last.arg.user, last.arg.newRole, last.arg.adminUser)]
  /\ UNCHANGED <<tasks, taskNextId, users, userNextId, now>>

InitHelpers ==
  /\ tasks = <<>>
  /\ taskNextId = 1
  /\ now = 1
  /\ users = <<DefaultAdmin(1)>>
  /\ userNextId = 2
  /\ last \in {Call("calculateCompletionRate", [tasks |-> ts]) : ts \in RateInputs}
            \cup {Call("User.canAccess", a) : a \in AccessInputs}
            \cup {Call("User.changeRole", a) : a \in ChangeRoleInputs}

NextHelpers ==
  \/ H_calculateCompletionRate
  \/ H_canAccess
  \/ H_changeRole

SpecHelpers == InitHelpers /\ [][NextHelpers]_vars

(***************************************************************************)
(* C1, C2: the validators against the stated rules.                        *)
(***************************************************************************)
\* the rule of the specification for a task record
TaskRuleOK(t) ==
  /\ t.title # UndefStr /\ Len(Trim(t.title)) > 0 /\ Len(t.title) <= 200
  /\ t.description # UndefStr => Len(t.description) <= 1000
  /\ t.priority # Undef => t.priority \in Priority
  /\ t.status # Undef => t.status \in TaskStatus
  /\ t.dueDate # UndefDate => t.dueDate >= t.createdAt

\* C1: a task validator answers valid exactly when the title is non-empty
\* after trimming and at most 200 characters, the description (if present)
\* at most 1000 characters, priority and status (if present) enumerated
\* values, and the due timestamp (if present) not earlier than the creation
\* timestamp.  Stated for well-typed dates and tags.
C1_ValidIffTaskRules ==
  /\ last.op = "Task.validate" => (last.res.isValid <=> TaskRuleOK(last.arg))
  /\ (last.op = "validateTaskData" /\ last.arg.dueDate # NaNDate
        /\ last.arg.tagsKind \in {"absent", "strings"})
       => (last.res.isValid <=> TaskRuleOK(last.arg))

\* the shape local@domain.tld: three non-empty runs without whitespace (and
\* without a further "@"), separated by "@" and "."
EmailShape(email) ==
  \E i \in 1..Len(email) : \E j \in 1..Len(email) :
    /\ email[i] = "@" /\ email[j] = "."
    /\ 1 < i /\ i + 1 < j /\ j < Len(email)
    /\ \A k \in 1..Len(email) : k # i => (email[k] # " " /\ email[k] # "@")

\* the rule of the specification for a user record
UserRuleOK(u) ==
  /\ u.name # UndefStr /\ Len(Trim(u.name)) > 0 /\ Len(u.name) <= 100
  /\ u.email # UndefStr /\ Len(u.email) > 0 /\ EmailShape(u.email)
  /\ u.role # Undef => u.role \in UserRole

\* C2: a user validator answers valid exactly when the name is non-empty
\* after trimming and at most 100 characters, the email is non-empty and of
\* the shape local@domain.tld, and the role (if present) an enumerated value.
C2_ValidIffUserRules ==
  last.op \in {"User.validate", "validateUserData"}
    => (last.res.isValid <=> UserRuleOK(last.arg))

(***************************************************************************)
(* C3, C4: administrators in the user collection.                          *)
(***************************************************************************)
\* C3: in every state reachable from a fresh UserService by create, update,
\* delete and clear, the collection holds at least one ADMIN.
C3_AlwaysAnAdmin == \E i \in 1..Len(users) : users[i].role = "admin"

\* the caller of delete is permitted: no acting user is given, or the acting
\* user is an ADMIN or a MANAGER
DeletePermitted(by) == by = None \/ Val(by).role \in {"admin", "manager"}

\* C4: delete of an ADMIN is rejected with an error and leaves the collection
\* unchanged when it is the only ADMIN; it succeeds and removes exactly that
\* user when at least two ADMINs exist and the caller is permitted.
C4_DeleteAdmin ==
  [][last'.op = "UserService.delete"
       => \A i \in 1..Len(users) :
            (/\ users[i].id = last'.id
             /\ \A j \in 1..(i - 1) : users[j].id # last'.id
             /\ users[i].role = "admin")
            => LET admins == {k \in 1..Len(users) : users[k].role = "admin"}
               IN  /\ admins = {i}
                     => (~last'.resp.success /\ users' = users)
                   /\ (Cardinality(admins) >= 2 /\ DeletePermitted(last'.by))
                     => /\ last'.resp.success
                        /\ Len(users') = Len(users) - 1
                        /\ \A k \in 1..Len(users') :
                             users'[k] = IF k < i THEN users[k] ELSE users[k + 1]]_vars

\* the sole ADMIN was the target of a delete, which was rejected
C4_Witness ==
  /\ last.op = "UserService.delete"
  /\ IsSome(last.userToDelete)
  /\ Val(last.userToDelete).role = "admin"
  /\ ~last.resp.success
  /\ DeletePermitted(last.by)
  /\ Len(users) >= 2

\* one of two ADMINs was deleted
C4_WitnessTwoAdmins ==
  /\ last.op = "UserService.delete"
  /\ IsSome(last.userToDelete)
  /\ Val(last.userToDelete).role = "admin"
  /\ last.resp.success
  /\ C3_AlwaysAnAdmin

(***************************************************************************)
(* C5: status and completed.                                               *)
(***************************************************************************)
\* C5: in every state reachable by TaskService create, update, markComplete
\* and delete (and Task.markComplete / markIncomplete), each stored task has
\* completed = true exactly when its status is DONE.
C5_CompletedIffDone ==
  \A i \in 1..Len(tasks) : tasks[i].completed <=> tasks[i].status = "done"

(***************************************************************************)
(* C6 .. C10: the listing of tasks.                                        *)
(***************************************************************************)
IsGetAll == last.op = "TaskService.getAll"

Elems(arr) == {arr[i] : i \in 1..Len(arr)}

NoDuplicates(arr) == \A i \in 1..Len(arr) : \A j \in 1..Len(arr) : arr[i] = arr[j] => i = j

\* a task satisfies every supplied field of the filter, a field being
\* supplied when it is not undefined
SatisfiesSupplied(task, f) ==
  /\ IsSome(f.status) => task.status \in Elems(AsArray(Val(f.status)))
  /\ IsSome(f.priority) => task.priority \in Elems(AsArray(Val(f.priority)))
  /\ f.assignedTo # Undef => task.assignedTo = f.assignedTo
  /\ IsSome(f.completed) => task.completed = Val(f.completed)
  /\ IsSome(f.dateRange)
       => (Val(f.dateRange).start <= task.createdAt /\ task.createdAt <= Val(f.dateRange).end)
  /\ f.tags # UndefTags => Elems(task.tags) \cap Elems(f.tags) # {}

\* C6 as stated: the list getAll returns for a filter holds exactly the
\* stored tasks that satisfy every supplied filter field.
C6_ExactlySupplied ==
  (IsGetAll /\ IsSome(last.filters) /\ last.pagination = None)
    => /\ Elems(last.resp.data.tasks)
            = {t \in Elems(tasks) : SatisfiesSupplied(t, Val(last.filters))}
       /\ NoDuplicates(last.resp.data.tasks)

\* as SatisfiesSupplied, but an empty assignee string and an empty tag list
\* count as omitted
SatisfiesEffective(task, f) ==
  /\ IsSome(f.status) => task.status \in Elems(AsArray(Val(f.status)))
  /\ IsSome(f.priority) => task.priority \in Elems(AsArray(Val(f.priority)))
  /\ (f.assignedTo # Undef /\ f.assignedTo # "") => task.assignedTo = f.assignedTo
  /\ IsSome(f.completed) => task.completed = Val(f.completed)
  /\ IsSome(f.dateRange)
       => (Val(f.dateRange).start <= task.createdAt /\ task.createdAt <= Val(f.dateRange).end)
  /\ (f.tags # UndefTags /\ f.tags # <<>>) => Elems(task.tags) \cap Elems(f.tags) # {}

\* C6 amended: the list getAll returns for a filter holds exactly the stored
\* tasks that satisfy every supplied filter field, where an empty assignee
\* string and an empty tag list exclude no task, like an omitted field.
C6_ExactlyEffective ==
  (IsGetAll /\ IsSome(last.filters) /\ last.pagination = None)
    => /\ Elems(last.resp.data.tasks)
            = {t \in Elems(tasks) : SatisfiesEffective(t, Val(last.filters))}
       /\ NoDuplicates(last.resp.data.tasks)

\* a call with all six fields supplied returned some of the stored tasks and
\* left some out
C6_Witness ==
  /\ IsGetAll /\ IsSome(last.filters) /\ last.pagination = None
  /\ LET f == Val(last.filters)
     IN  /\ IsSome(f.status) /\ IsSome(f.priority) /\ f.assignedTo = "u1"
         /\ IsSome(f.completed) /\ IsSome(f.dateRange) /\ f.tags = <<"x">>
  /\ Len(last.resp.data.tasks) >= 1
  /\ Len(last.resp.data.tasks) < Len(tasks)

\* C7: filtering is idempotent: filtering the returned list with the same
\* filter yields the same list, same elements in the same order.
C7_FilterIdempotent ==
  (IsGetAll /\ IsSome(last.filters) /\ last.pagination = None)
    => applyFilters(last.resp.data.tasks, Val(last.filters)) = last.resp.data.tasks

\* a filter kept two tasks and dropped the one stored between them
C7_Witness ==
  /\ IsGetAll /\ IsSome(last.filters) /\ last.pagination = None
  /\ Len(tasks) = 3
  /\ last.resp.data.tasks = <<tasks[1], tasks[3]>>

IsSortedGetAll ==
  IsGetAll /\ IsSome(last.pagination) /\ Truthy(Val(last.pagination).sortBy)

\* pagination.sortOrder || 'asc'
EffectiveOrder == IF Truthy(Val(last.pagination).sortOrder) THEN Val(last.pagination).sortOrder
                  ELSE "asc"

\* C8 as stated: in a sorted listing every task without a value for the key
\* comes after every task with one, ascending and descending.
C8_UndefinedLast ==
  IsSortedGetAll
    => LET got == last.resp.data.tasks
           key == Val(last.pagination).sortBy
       IN  \A i \in 1..Len(got) : \A j \in 1..Len(got) :
             (KeyUndefined(got[i], key) /\ ~KeyUndefined(got[j], key)) => j < i

\* C8 amended: in a listing sorted ascending every task without a value for
\* the key comes after every task with one; in a listing sorted descending
\* it comes before every task with one.
C8_UndefinedByDirection ==
  IsSortedGetAll
    => LET got == last.resp.data.tasks
           key == Val(last.pagination).sortBy
       IN  \A i \in 1..Len(got) : \A j \in 1..Len(got) :
             (KeyUndefined(got[i], key) /\ ~KeyUndefined(got[j], key))
               => IF EffectiveOrder = "desc" THEN i < j ELSE j < i

\* a descending listing that starts with a task without the key and ends
\* with a task that has it, stored in the other order
C8_Witness ==
  /\ IsSortedGetAll
  /\ EffectiveOrder = "desc"
  /\ Len(tasks) >= 2
  /\ ~KeyUndefined(tasks[1], Val(last.pagination).sortBy)
  /\ LET got == last.resp.data.tasks
     IN  /\ Len(got) >= 2
         /\ KeyUndefined(got[1], Val(last.pagination).sortBy)
         /\ got[Len(got)] = tasks[1]

\* two tasks have the same value for the key, or both have none
SameKey(a, b, key) ==
  IF KeyUndefined(a, key) \/ KeyUndefined(b, key)
    THEN KeyUndefined(a, key) /\ KeyUndefined(b, key)
    ELSE ~KeyLt(a, b, key) /\ ~KeyLt(b, a, key)

PositionIn(arr, t) == CHOOSE k \in 1..Len(arr) : arr[k] = t

\* C9: sorting is stable and idempotent: in a listing sorted by K that holds
\* the whole result, tasks with equal K (or both without K) are in their
\* stored order, and sorting the listing again by K in the same direction
\* leaves it as it is.
C9_SortStableIdempotent ==
  (IsSortedGetAll /\ Val(last.pagination).page = 1
     /\ Val(last.pagination).limit >= last.resp.data.total)
    => LET got == last.resp.data.tasks
           key == Val(last.pagination).sortBy
       IN  /\ \A i \in 1..Len(got) : \A j \in 1..Len(got) :
                (i < j /\ SameKey(got[i], got[j], key))
                  => PositionIn(tasks, got[i]) < PositionIn(tasks, got[j])
           /\ applySorting(got, key, EffectiveOrder) = got

\* a whole listing of three tasks in which the sort moved a task to the front
\* and left two tasks of equal key behind it
C9_Witness ==
  /\ IsSortedGetAll /\ Val(last.pagination).page = 1
  /\ Len(tasks) = 3
  /\ LET got == last.resp.data.tasks
     IN  /\ got = <<tasks[3], tasks[1], tasks[2]>>
         /\ SameKey(tasks[1], tasks[2], Val(last.pagination).sortBy)

\* the filtered and sorted list that the pages are cut from
FilteredSorted(ts, filters, pagination) ==
  LET filtered == IF IsSome(filters) THEN applyFilters(ts, Val(filters)) ELSE ts
  IN  IF Truthy(Val(pagination).sortBy)
        THEN applySorting(filtered, Val(pagination).sortBy,
                          IF Truthy(Val(pagination).sortOrder)
                            THEN Val(pagination).sortOrder ELSE "asc")
        ELSE filtered

\* the task lists of getAll for the pages p, p + 1, ..., n, concatenated
RECURSIVE PagesFrom(_, _, _, _, _)
PagesFrom(ts, filters, pagination, p, n) ==
  IF p > n THEN <<>>
  ELSE getAllData(ts, filters, Some([Val(pagination) EXCEPT !.page = p])).tasks
       \o PagesFrom(ts, filters, pagination, p + 1, n)

\* C10: for a fixed collection, filter, sort options and positive limit, the
\* task lists of the pages 1 .. totalPages, concatenated, are the whole
\* filtered and sorted list, every task once.
C10_PagesCoverOnce ==
  (IsGetAll /\ IsSome(last.pagination) /\ Val(last.pagination).page = 1)
    => LET all == PagesFrom(tasks, last.filters, last.pagination, 1,
                            last.resp.data.totalPages)
       IN  /\ SubSeq(all, 1, Len(last.resp.data.tasks)) = last.resp.data.tasks
           /\ all = FilteredSorted(tasks, last.filters, last.pagination)
           /\ NoDuplicates(all)
           /\ Len(all) = last.resp.data.total

\* three tasks listed in pages of two: a full page and a last page of one
C10_Witness ==
  /\ IsGetAll /\ IsSome(last.pagination) /\ Val(last.pagination).page = 1
  /\ Val(last.pagination).limit = 2
  /\ last.resp.data.total = 3
  /\ last.resp.data.totalPages = 2
  /\ Len(last.resp.data.tasks) = 2

(***************************************************************************)
(* C11, C12: pages and the frame of getAll.                                *)
(***************************************************************************)
\* the least n with n * limit >= total
CeilingOfQuotient(total, limit) ==
  CHOOSE n \in 0..total : n * limit >= total /\ \A m \in 0..(n - 1) : m * limit < total

\* C11: for positive integers page and limit, getAll succeeds with total the
\* number of tasks matching the filter, totalPages = ceil(total / limit) and
\* tasks the elements of the filtered, sorted list at the indices
\* [(page - 1) * limit, (page - 1) * limit + limit); a page beyond totalPages
\* gives a successful response with an empty list.
C11_PageSlice ==
  (IsGetAll /\ IsSome(last.pagination))
    => LET resp == last.resp
           page == Val(last.pagination).page
           limit == Val(last.pagination).limit
           full == FilteredSorted(tasks, last.filters, last.pagination)
           matching == {t \in Elems(tasks) :
                          IsSome(last.filters) => SatisfiesEffective(t, Val(last.filters))}
           first == (page - 1) * limit
       IN  /\ resp.success
           /\ resp.data.total = Cardinality(matching)
           /\ resp.data.totalPages = CeilingOfQuotient(resp.data.total, limit)
           /\ resp.data.page = page
           /\ \A k \in 1..limit :
                IF first + k <= Len(full)
                  THEN k <= Len(resp.data.tasks) /\ resp.data.tasks[k] = full[first + k]
                  ELSE k > Len(resp.data.tasks)
           /\ Len(resp.data.tasks) <= limit
           /\ page > resp.data.totalPages => resp.data.tasks = <<>>

\* a page beyond the last one of a non-empty result
C11_Witness ==
  /\ IsGetAll /\ IsSome(last.pagination)
  /\ last.resp.success
  /\ last.resp.data.total = 3
  /\ Val(last.pagination).limit = 2
  /\ Val(last.pagination).page = 3
  /\ last.resp.data.totalPages = 2
  /\ last.resp.data.tasks = <<>>

\* the last page of a result, shorter than the limit
C11_WitnessLastPage ==
  /\ IsGetAll /\ IsSome(last.pagination)
  /\ last.resp.data.total = 3
  /\ Val(last.pagination).limit = 2
  /\ Val(last.pagination).page = 2
  /\ Len(last.resp.data.tasks) = 1

\* C12: getAll has no side effects on the service: the stored tasks (members,
\* order and fields) and the id counter are the same after the call as
\* before it.
C12_GetAllFrame ==
  [][last'.op = "TaskService.getAll" => (tasks' = tasks /\ taskNextId' = taskNextId)]_vars

\* a listing without filter whose sort returned the stored tasks in another
\* order
C12_Witness ==
  /\ IsSortedGetAll
  /\ last.filters = None
  /\ Len(tasks) = 3
  /\ Len(last.resp.data.tasks) = 3
  /\ last.resp.data.tasks # tasks

(***************************************************************************)
(* C13, C14: the error lists of the task validators.                       *)
(***************************************************************************)
\* the rule an error message reports
RuleOf(message) ==
  CASE message \in {"Title is required", "Title cannot be empty"} -> "title required"
    [] message \in {"Title must be at least 1 characters long",
                    "Title must be no more than 200 characters long",
                    "Title must be less than 200 characters"} -> "title length"
    [] message \in {"Description must be no more than 1000 characters long",
                    "Description must be less than 1000 characters"} -> "description length"
    [] message = "Invalid priority value" -> "priority"
    [] message = "Invalid status value" -> "status"
    [] message \in {"Due date must be a valid date",
                    "Due date cannot be before creation date"} -> "due date"
    [] OTHER -> "other"

\* the rules a task input violates, in the rule order
ViolatedTaskRules(t) ==
  (IF t.title = UndefStr \/ Len(Trim(t.title)) = 0 THEN <<"title required">> ELSE <<>>)
  \o (IF t.title # UndefStr /\ Len(t.title) > 200 THEN <<"title length">> ELSE <<>>)
  \o (IF t.description # UndefStr /\ Len(t.description) > 1000
        THEN <<"description length">> ELSE <<>>)
  \o (IF t.priority # Undef /\ t.priority \notin Priority THEN <<"priority">> ELSE <<>>)
  \o (IF t.status # Undef /\ t.status \notin TaskStatus THEN <<"status">> ELSE <<>>)
  \o (IF t.dueDate # UndefDate /\ (t.dueDate = NaNDate \/ t.dueDate < t.createdAt)
        THEN <<"due date">> ELSE <<>>)

\* C13: validation is non-short-circuiting and ordered: the error list of a
\* task validator holds one message for every violated rule (title required,
\* title length, description length, priority, status, due date), in that
\* order; a whitespace-only title longer than 200 characters is reported both
\* as missing and as too long.  Stated for inputs with well-formed tags.
C13_EveryRuleReported ==
  (last.op = "Task.validate"
     \/ (last.op = "validateTaskData" /\ last.arg.tagsKind \in {"absent", "strings"}))
    => [i \in 1..Len(last.res.errors) |-> RuleOf(last.res.errors[i])]
         = ViolatedTaskRules(last.arg)

\* C14: validating a task input with an empty title, a description longer
\* than 1000 characters and a priority outside the enumerated set (and
\* nothing else wrong) answers invalid with exactly three errors: the title
\* error, the description-too-long error, the invalid-priority error.
C14_DemoThreeErrors ==
  (/\ last.op = "validateTaskData"
   /\ last.arg.title = <<>>
   /\ last.arg.description # UndefStr /\ Len(last.arg.description) > 1000
   /\ last.arg.priority # Undef /\ last.arg.priority \notin Priority
   /\ last.arg.status \in TaskStatus \cup {Undef}
   /\ last.arg.dueDate # NaNDate
   /\ last.arg.tagsKind \in {"absent", "strings"})
    => /\ ~last.res.isValid
       /\ last.res.errors = <<"Title cannot be empty",
                              "Description must be no more than 1000 characters long",
                              "Invalid priority value">>

\* the demo's record {title: '', description: 'A'.repeat(1001), priority:
\* 'invalid'} has been validated
C14_Witness ==
  /\ last.op = "validateTaskData"
  /\ last.arg.title = <<>>
  /\ Len(last.arg.description) = 1001
  /\ last.arg.priority = "invalid"
  /\ last.arg.status = Undef /\ last.arg.dueDate = UndefDate /\ last.arg.tagsKind = "absent"
  /\ Len(last.res.errors) = 3

(***************************************************************************)
(* C15: the completion rate.                                               *)
(***************************************************************************)
\* C15: calculateCompletionRate returns 0 for the empty list and, for a
\* non-empty list, the integer round(100 * completedCount / total) with
\* halves rounded up, which lies in 0..100.
C15_RateIsRoundedPercentage ==
  last.op = "calculateCompletionRate"
    => LET total == Len(last.arg.tasks)
           completedCount == Cardinality({k \in 1..total : last.arg.tasks[k].completed})
       IN  /\ total = 0 => last.res = 0
           /\ total > 0
                => \* 2 * |res - 100 * c / t| <= 1, and the upper integer on a tie
                   /\ 2 * total * last.res <= 200 * completedCount + total
                   /\ 2 * total * last.res > 200 * completedCount - total
           /\ last.res \in 0..100

(***************************************************************************)
(* C20: the privilege order of the roles.                                  *)
(***************************************************************************)
\* role a is at least role b in ADMIN > MANAGER > USER > GUEST
RoleAtLeast ==
  {<<"admin", "admin">>, <<"admin", "manager">>, <<"admin", "user">>, <<"admin", "guest">>,
   <<"manager", "manager">>, <<"manager", "user">>, <<"manager", "guest">>,
   <<"user", "user">>, <<"user", "guest">>,
   <<"guest", "guest">>}

\* C20: user.canAccess(requiredRole) is true exactly when the user's role is
\* at least requiredRole in the order ADMIN > MANAGER > USER > GUEST.
C20_CanAccessIffAtLeast ==
  last.op = "User.canAccess"
    => (last.res <=> <<last.arg.user.role, last.arg.requiredRole>> \in RoleAtLeast)

\* a manager has been granted access to a resource that requires a manager
C20_Witness ==
  /\ last.op = "User.canAccess"
  /\ last.arg.user.role = "manager"
  /\ last.arg.requiredRole = "manager"
  /\ last.res

\* a user has been refused a resource that requires a manager
C20_WitnessRefused ==
  /\ last.op = "User.canAccess"
  /\ last.arg.user.role = "user"
  /\ last.arg.requiredRole = "manager"
  /\ ~last.res

(***************************************************************************)
(* C16 .. C19: the stored tasks over the life of a TaskService.            *)
(***************************************************************************)
\* C16: every stored task has a title that is non-empty after trimming and
\* at most 200 characters, and a due timestamp that is absent or not earlier
\* than its creation timestamp.
C16_StoredTasksValid ==
  \A i \in 1..Len(tasks) :
    /\ tasks[i].title # UndefStr
    /\ Len(Trim(tasks[i].title)) > 0
    /\ Len(tasks[i].title) <= 200
    /\ tasks[i].dueDate = UndefDate \/ tasks[i].dueDate >= tasks[i].createdAt

\* the fields of a task that a caller of update can set
UpdatableFields(task) ==
  <<task.title, task.description, task.priority, task.status, task.assignedTo,
    task.dueDate, task.tags>>

\* C17: when update's changes make the task fail validation, the response is
\* unsuccessful, carries the validation errors, and the stored task's title,
\* description, priority, status, assignee, due date and tags are the same
\* after the call as before it.
C17_FailedUpdateRejected ==
  [][(/\ last'.op = "TaskService.update"
      /\ ~last'.resp.success
      /\ last'.resp.error.kind = "Validation failed: ...")
       => /\ Len(last'.resp.error.detail) > 0
          /\ Len(tasks') = Len(tasks)
          /\ \A i \in 1..Len(tasks) : UpdatableFields(tasks'[i]) = UpdatableFields(tasks[i])]_vars

LookupOps ==
  {"TaskService.getById", "TaskService.update", "TaskService.delete",
   "TaskService.markComplete"}

\* C18: getById, update, delete and markComplete called with an identifier
\* that matches no stored task return an unsuccessful response with a
\* not-found error, which is not the validation-failure error, and leave the
\* task collection unchanged.
C18_NotFound ==
  [][(/\ last'.op \in LookupOps
      /\ \A i \in 1..Len(tasks) : tasks[i].id # last'.id)
       => /\ ~last'.resp.success
          /\ last'.resp.error = [kind |-> "Task with ID ... not found", detail |-> last'.id]
          /\ last'.resp.error.kind # "Validation failed: ..."
          /\ tasks' = tasks]_vars

\* delete has answered not-found for an identifier while other tasks are
\* stored
C18_Witness ==
  /\ last.op = "TaskService.delete"
  /\ ~last.resp.success
  /\ Len(tasks) >= 1
  /\ \A i \in 1..Len(tasks) : tasks[i].id # last.id

TaskIds(ts) == [i \in 1..Len(ts) |-> ts[i].id]

\* C19: no two stored tasks have the same identifier, and no operation
\* changes the identifier of a stored task: an operation leaves the
\* identifiers as they are, adds one that no stored task has, removes one,
\* or removes all.
C19_UniqueStableIds ==
  /\ [](\A i \in 1..Len(tasks) : \A j \in 1..Len(tasks) :
          tasks[i].id = tasks[j].id => i = j)
  /\ [][\/ TaskIds(tasks') = TaskIds(tasks)
        \/ /\ Len(tasks') = Len(tasks) + 1
           /\ SubSeq(TaskIds(tasks'), 1, Len(tasks)) = TaskIds(tasks)
           /\ tasks'[Len(tasks')].id \notin Elems(TaskIds(tasks))
        \/ \E k \in 1..Len(tasks) : TaskIds(tasks') = RemoveAt(TaskIds(tasks), k)
        \/ tasks' = <<>>]_vars

\* after a delete and a later create, two tasks are stored and the
\* identifier of the second is not the number of stored tasks
C19_Witness ==
  /\ last.op = "TaskService.create"
  /\ last.resp.success
  /\ Len(tasks) = 2
  /\ tasks[1].id = TaskId(2)
  /\ tasks[2].id = TaskId(3)

(***************************************************************************)
(* C21: the tags of a task.                                                *)
(***************************************************************************)
\* C21: the tags of a stored task never hold the same string twice, after
\* construction from a tag list and after addTag, removeTag, Task.update and
\* TaskService.update.
C21_TagsDistinct ==
  \A i \in 1..Len(tasks) : NoDuplicates(tasks[i].tags)

(***************************************************************************)
(* C22: the order of a filtered listing.                                   *)
(***************************************************************************)
\* C22: when no sort key is given, the tasks getAll returns for a filter are
\* in the same relative order as in the stored collection; tasks of
\* priorities [HIGH, MEDIUM, LOW] filtered by priority in {HIGH, MEDIUM}
\* give the HIGH task, then the MEDIUM task.
C22_FilterKeepsOrder ==
  (/\ IsGetAll
   /\ IsSome(last.filters)
   /\ IsSome(last.pagination) => ~Truthy(Val(last.pagination).sortBy))
    => LET got == last.resp.data.tasks
       IN  /\ \A i \in 1..Len(got) : got[i] \in Elems(tasks)
           /\ \A i \in 1..Len(got) : \A j \in 1..Len(got) :
                i < j => PositionIn(tasks, got[i]) < PositionIn(tasks, got[j])
           /\ ([k \in 1..Len(tasks) |-> tasks[k].priority] = <<"high", "medium", "low">>
                 /\ Val(last.filters) = DemoFilter /\ last.pagination = None)
                => got = <<tasks[1], tasks[2]>>

\* the stored priorities are HIGH, MEDIUM, LOW and the listing for priority
\* in {HIGH, MEDIUM} is the HIGH task followed by the MEDIUM task
C22_Witness ==
  /\ IsGetAll
  /\ last.filters = Some(DemoFilter)
  /\ last.pagination = None
  /\ [k \in 1..Len(tasks) |-> tasks[k].priority] = <<"high", "medium", "low">>
  /\ last.resp.data.tasks = <<tasks[1], tasks[2]>>

(***************************************************************************)
(* C23, C25: UserService.update.                                           *)
(***************************************************************************)
\* the fields of a user that a caller of update can set
UserUpdatableFields(user) ==
  <<user.name, user.email, user.role, user.isActive, user.preferences>>

\* C23: when UserService.update's changes are rejected (the new email is
\* taken by another user, or the resulting user fails validation), the
\* response is unsuccessful and the stored user's name, email, role, active
\* flag and preferences are the same after the call as before it.
C23_RejectedUserUpdate ==
  [][(/\ last'.op = "UserService.update"
      /\ ~last'.resp.success
      /\ last'.resp.error.kind \in {"Email is already taken by another user",
                                    "Validation failed: ..."})
       => /\ Len(users') = Len(users)
          /\ \A i \in 1..Len(users) :
               UserUpdatableFields(users'[i]) = UserUpdatableFields(users[i])]_vars

\* the call is an update of a stored user by an actor who is not an ADMIN
UpdateByNonAdmin ==
  /\ last'.op = "UserService.update"
  /\ IsSome(last'.by)
  /\ Val(last'.by).role # "admin"
  /\ \E i \in 1..Len(users) : users[i].id = last'.id

\* C25: whenever UserService.update is called with an updatedBy actor who is
\* not an ADMIN, the target's role after the call is its role before the
\* call, and if the updates include a role the call fails and changes no
\* field of the target.
C25_OnlyAdminsChangeRoles ==
  [][UpdateByNonAdmin
       => /\ Len(users') = Len(users)
          /\ \A i \in 1..Len(users) : users'[i].role = users[i].role
          /\ last'.arg.role # Undef => (~last'.resp.success /\ users' = users)]_vars

\* a manager asked for a role change of a stored user and was refused
C25_Witness ==
  /\ last.op = "UserService.update"
  /\ last.by = Some(Manager)
  /\ last.arg.role = "admin"
  /\ \E i \in 1..Len(users) : users[i].id = last.id /\ users[i].role = "user"
  /\ ~last.resp.success
  /\ last.resp.error.kind = "Only administrators can change user roles"

(***************************************************************************)
(* C24: User.changeRole.                                                   *)
(***************************************************************************)
\* C24: user.changeRole(newRole, adminUser) sets the user's role to newRole
\* and returns true only when adminUser is an ADMIN; otherwise it returns
\* false and leaves the role as it was.
C24_ChangeRoleAdminOnly ==
  last.op = "User.changeRole"
    => /\ last.res.returned => last.arg.adminUser.role = "admin"
       /\ last.res.returned => last.res.user.role = last.arg.newRole
       /\ ~last.res.returned => last.res.user.role = last.arg.user.role
       /\ last.arg.adminUser.role # "admin" => last.res.user.role = last.arg.user.role

(***************************************************************************)
(* C26, C27: identifiers and emails of the stored users.                   *)
(***************************************************************************)
\* C26: no two stored users have the same identifier, also after clear().
C26_UserIdsUnique ==
  \A i \in 1..Len(users) : \A j \in 1..Len(users) :
    users[i].id = users[j].id => i = j

\* C27: no two stored users have the same email address.
C27_UserEmailsUnique ==
  \A i \in 1..Len(users) : \A j \in 1..Len(users) :
    users[i].email = users[j].email => i = j

(***************************************************************************)
(* C28, C29: the lock of a user and authenticate.                          *)
(***************************************************************************)
\* C28: a user's lock state follows the failed-login counter: isLocked is
\* true exactly when loginAttempts >= 5; a failed login adds one to the
\* counter, and recordLogin and activate set it to 0 and unlock.  (A step
\* that leaves now alone is a call; the other steps are the passage of time.)
C28_LockedIffFiveAttempts ==
  /\ [](\A i \in 1..Len(users) : users[i].isLocked <=> users[i].loginAttempts >= 5)
  /\ [][/\ (last'.op = "User.recordFailedLogin" /\ now' = now)
             => users'[last'.index].loginAttempts = users[last'.index].loginAttempts + 1
        /\ last'.op \in {"User.recordLogin", "User.activate"}
             => (users'[last'.index].loginAttempts = 0 /\ ~users'[last'.index].isLocked)]_vars

\* a user has just been locked by the fifth failed login in a row
C28_Witness ==
  /\ last.op = "User.recordFailedLogin"
  /\ users[last.index].loginAttempts = 5
  /\ users[last.index].isLocked

\* the login fields of the users
LoginFields(us) == [i \in 1..Len(us) |-> <<us[i].lastLogin, us[i].loginAttempts, us[i].isLocked>>]

\* C29: authenticate succeeds only for the email of a stored user who is
\* active and not locked; on success it sets that user's lastLogin and
\* resets the failed-login counter; on failure it leaves every user's
\* lastLogin, loginAttempts and lock state unchanged.  (A step that leaves
\* now alone is a call; the other steps are the passage of time.)
C29_Authenticate ==
  [][(last'.op = "UserService.authenticate" /\ now' = now)
       => IF last'.resp.success
            THEN \E i \in 1..Len(users) :
                   /\ users[i].email = last'.email
                   /\ users[i].isActive /\ ~users[i].isLocked
                   /\ users'[i].lastLogin = now
                   /\ users'[i].loginAttempts = 0
                   /\ last'.resp.data = users'[i]
                   /\ \A k \in 1..Len(users) : k # i => users'[k] = users[k]
            ELSE /\ LoginFields(users') = LoginFields(users)
                 /\ \/ \A i \in 1..Len(users) : users[i].email # last'.email
                    \/ \E i \in 1..Len(users) :
                         users[i].email = last'.email
                           /\ (~users[i].isActive \/ users[i].isLocked)]_vars

\* a user with failed logins behind them has logged in at a later time: the
\* counter is 0 and lastLogin is the time of the call
C29_Witness ==
  /\ last.op = "UserService.authenticate"
  /\ last.resp.success
  /\ now = 2
  /\ \E i \in 1..Len(users) :
       /\ users[i].email = last.email
       /\ users[i].lastLogin = 2
       /\ users[i].loginAttempts = 0

\* a locked user has been refused
C29_WitnessLocked ==
  /\ last.op = "UserService.authenticate"
  /\ ~last.resp.success
  /\ \E i \in 1..Len(users) : users[i].email = last.email /\ users[i].isLocked

(***************************************************************************)
(* C30: the two task validators on the same record.                        *)
(***************************************************************************)
\* C30: the two task validators agree: for every complete task record (a
\* title, an enumerated priority and status, valid dates, tags that are
\* strings), Task.validate().isValid equals
\* validateTaskData(record).isValid.
C30_ValidatorsAgree ==
  last.op = "Task.validate, validateTaskData" => last.res.isValid = last.dataRes.isValid

====
